---- MODULE Spec2Model ----
(***************************************************************************)
(* A model of the PDF merger of wahidyankf/source-works:                   *)
(*   src/sw_core/pdf.py            create_toc_page, create_title_page,     *)
(*                                 add_page_numbers, merge_pdfs            *)
(*   src/sw_core/domains/files.py  get_unique_filename                     *)
(*                                                                         *)
(* File names are sequences of one-character strings, so that splitext,    *)
(* glob, startswith, sorting and the counter suffix are computed on the    *)
(* characters as the code computes them.  A PDF file is a record           *)
(*   [valid, pages, outline]; a page is [kind, name, idx, body, foot].     *)
(***************************************************************************)
EXTENDS Integers, Sequences, FiniteSets, TLC

VARIABLES
    dir,        \* the input directory: file name -> file content
    tmp,        \* the platform's temp area: temp id -> file content
    m,          \* per invocation: the locals of merge_pdfs and its position
    merges,     \* number of invocations started so far
    produced,   \* names of the final outputs written by completed invocations
    uq,         \* the last call of get_unique_filename made on its own
    cli,        \* the run of the command line: its arguments and what it did
    lib         \* a call of create_toc_page, wrap_text or create_title_page
                \* made on its own: its arguments and what it returned

vars == <<dir, tmp, m, merges, produced, uq, cli, lib>>

(***************************************************************************)
(* Bounds of the model.                                                    *)
(***************************************************************************)
MaxMerges == 2      \* invocations of merge_pdfs in one behaviour
MaxPages == 2       \* page count of a source PDF ranges over 0..MaxPages

(***************************************************************************)
(* Characters and strings.                                                 *)
(***************************************************************************)
\* The characters the model's names use, in code-point order, with their
\* code points (Python compares str by code point).
Chars ==
    << " ", ".", "0", "1", "2", "3", "4", "5", "6", "7", "8", "9", "_",
       "a", "b", "c", "d", "e", "f", "g", "m", "n", "o", "p", "r", "s",
       "t", "u", "x" >>

CodePoints ==
    << 32, 46, 48, 49, 50, 51, 52, 53, 54, 55, 56, 57, 95,
       97, 98, 99, 100, 101, 102, 103, 109, 110, 111, 112, 114, 115,
       116, 117, 120 >>

ord(c) == CodePoints[CHOOSE i \in 1..Len(Chars) : Chars[i] = c]

\* Python's  a < b  on str.
RECURSIVE StrLess(_, _)
StrLess(a, b) ==
    IF b = << >> THEN FALSE
    ELSE IF a = << >> THEN TRUE
    ELSE IF Head(a) = Head(b) THEN StrLess(Tail(a), Tail(b))
    ELSE ord(Head(a)) < ord(Head(b))

\* str.startswith
startswith(s, prefix) ==
    /\ Len(s) >= Len(prefix)
    /\ SubSeq(s, 1, Len(prefix)) = prefix

\* str.endswith
endswith(s, suffix) ==
    /\ Len(s) >= Len(suffix)
    /\ SubSeq(s, Len(s) - Len(suffix) + 1, Len(s)) = suffix

\* str.rfind(c): the last index (1-based) holding c, 0 when there is none.
rfind(s, c) ==
    IF \E i \in 1..Len(s) : s[i] = c
    THEN CHOOSE i \in 1..Len(s) :
            /\ s[i] = c
            /\ \A j \in (i + 1)..Len(s) : s[j] # c
    ELSE 0

\* os.path.splitext on a name without directory separators: the extension
\* starts at the last dot, unless only dots precede it.
splitext(p) ==
    LET dotIndex == rfind(p, ".")
    IN  IF dotIndex > 0 /\ \E k \in 1..(dotIndex - 1) : p[k] # "."
        THEN [base |-> SubSeq(p, 1, dotIndex - 1),
              ext |-> SubSeq(p, dotIndex, Len(p))]
        ELSE [base |-> p, ext |-> << >>]

\* str(n) for n >= 0.
Digits == << "0", "1", "2", "3", "4", "5", "6", "7", "8", "9" >>

RECURSIVE str(_)
str(n) ==
    IF n < 10 THEN << Digits[n + 1] >>
    ELSE str(n \div 10) \o << Digits[(n % 10) + 1] >>

\* The k-th least element of a set of integers.
nth(S, k) == CHOOSE x \in S : Cardinality({ y \in S : y < x }) = k - 1

\* str.split(): the maximal runs of non-whitespace characters, in order:
\* the k-th word runs from the k-th position where a run starts to the k-th
\* position where one ends.
split(text) ==
    LET starts == { i \in 1..Len(text) :
                        text[i] # " " /\ (i = 1 \/ text[i - 1] = " ") }
        ends == { i \in 1..Len(text) :
                        text[i] # " " /\ (i = Len(text) \/ text[i + 1] = " ") }
    IN  [k \in 1..Cardinality(starts) |->
            SubSeq(text, nth(starts, k), nth(ends, k))]

\* " ".join(words)
\* " ".join(words); the range is halved to keep the evaluation shallow.
RECURSIVE joinRange(_, _, _)
joinRange(words, lo, hi) ==
    IF lo > hi THEN << >>
    ELSE IF lo = hi THEN words[lo]
    ELSE joinRange(words, lo, (lo + hi) \div 2) \o << " " >>
         \o joinRange(words, ((lo + hi) \div 2) + 1, hi)

join(words) == joinRange(words, 1, Len(words))

(***************************************************************************)
(* Font metrics.  The glyph widths are integers, in thousandths of the     *)
(* font size.                                                              *)
(***************************************************************************)
\* Helvetica glyph widths (per 1000 units of font size) of Chars.
GlyphWidths ==
    << 278, 278, 556, 556, 556, 556, 556, 556, 556, 556, 556, 556, 556,
       556, 556, 500, 556, 556, 278, 556, 833, 556, 556, 556, 333, 500,
       278, 556, 500 >>

glyph(c) == GlyphWidths[CHOOSE i \in 1..Len(Chars) : Chars[i] = c]

\* The sum of the glyph widths of text[lo..hi]; the range is halved to keep
\* the evaluation shallow on long names.
RECURSIVE glyphRange(_, _, _)
glyphRange(text, lo, hi) ==
    IF lo > hi THEN 0
    ELSE IF lo = hi THEN glyph(text[lo])
    ELSE glyphRange(text, lo, (lo + hi) \div 2)
         + glyphRange(text, ((lo + hi) \div 2) + 1, hi)

glyphSum(text) == glyphRange(text, 1, Len(text))

(***************************************************************************)
(* Python floats.  The widths and the horizontal positions of the code are *)
(* IEEE 754 doubles, and every operation on them rounds to the nearest     *)
(* double, ties to even.  The doubles met here are all close to a whole    *)
(* number of thousandths of a point, so a double d is kept as the pair     *)
(* [n, e] of integers with                                                 *)
(*                                                                         *)
(*     d = (n * 2^57 + e) / (1000 * 2^57):                                 *)
(*                                                                         *)
(* n thousandths of a point, and the distance e of d from them.  Every     *)
(* double from 2^-5 up is such a pair, and |e| stays far below 2^31.       *)
(***************************************************************************)
Dbl(n, e) == [n |-> n, e |-> e]

\* The pairs that stand for doubles.  The operations on doubles are
\* functions, which have their arguments computed before they are applied.
Doubles == [n : Int, e : Int]

\* float(k) for an integer k.
float(k) == Dbl(1000 * k, 0)

\* 2^j modulo 1000 for j in 0..57, by parts that stay below 2^31.
Pow2Mod1000(j) ==
    IF j <= 28 THEN (2^j) % 1000
    ELSE ((2^28 % 1000) * (2^(j - 28) % 1000)) % 1000

\* The doubles of the model are below 2^(MaxBinade - 4).
MaxBinade == 20

\* The binade of a positive value d >= 2^-5: the k with
\* 2^(k-5) <= d < 2^(k-4), where the doubles are 2^(k-57) apart.
binade(n, e) ==
    CHOOSE k \in 0..MaxBinade :
        /\ 32 * n > 1000 * 2^k \/ (32 * n = 1000 * 2^k /\ e >= 0)
        /\ k < MaxBinade =>
            ~(\/ 32 * n > 1000 * 2^(k + 1)
              \/ (32 * n = 1000 * 2^(k + 1) /\ e >= 0))

\* The double nearest to the positive value [n, e], ties to even.  With
\* M = 1000 * 2^k the doubles of binade k are the multiples of M in the
\* unit of e, and n * 2^57 = 2^(k+1) * (n * 2^(56-k)), which gives rem2,
\* the remainder of the value modulo 2 * M.  The value lies rem2 % M above
\* a multiple of M, an odd one when rem2 >= M; it goes up when that is more
\* than half of M, or half of M above an odd multiple.
roundRem[n \in Int, e \in Int, M \in Int, rem2 \in Int] ==
    Dbl(n, IF \/ 2 * (rem2 % M) > M
              \/ (2 * (rem2 % M) = M /\ rem2 >= M)
           THEN e + (M - (rem2 % M))
           ELSE e - (rem2 % M))

\* Rounding in binade k.
roundAt[n \in Int, e \in Int, k \in Int] ==
    roundRem[n, e, 1000 * 2^k,
             (2 * 2^k * (((n % 1000) * Pow2Mod1000(56 - k)) % 1000) + e)
                 % (2000 * 2^k)]

\* A value below 2^-5 is a difference of two doubles that are no finer
\* than itself: it is a double already.
roundPos(n, e) ==
    IF 32 * n < 1000 \/ (32 * n = 1000 /\ e < 0) THEN Dbl(n, e)
    ELSE roundAt[n, e, binade(n, e)]

\* The sign of the value [n, e], and s * a for a sign s.
sgn(n, e) == IF n < 0 \/ (n = 0 /\ e < 0) THEN -1 ELSE 1
scale[s \in Int, a \in Doubles] == Dbl(s * a.n, s * a.e)

\* The double nearest to the value [n, e]: rounding is symmetric.
roundSigned[s \in Int, n \in Int, e \in Int] ==
    scale[s, roundPos(s * n, s * e)]
round(n, e) == roundSigned[sgn(n, e), n, e]

\* a + b, a - b, and k * a for an integer k, on doubles.
fadd[a \in Doubles, b \in Doubles] == round(a.n + b.n, a.e + b.e)
fsub[a \in Doubles, b \in Doubles] == round(a.n - b.n, a.e - b.e)
fmul[k \in Int, a \in Doubles] == round(k * a.n, k * a.e)

\* a <= b and a < b on doubles.
fle[a \in Doubles, b \in Doubles] == a.n < b.n \/ (a.n = b.n /\ a.e <= b.e)
flt[a \in Doubles, b \in Doubles] == a.n < b.n \/ (a.n = b.n /\ a.e < b.e)

\* The double literals 0.001 and 0.1.
Milli == Dbl(1, 3)
Tenth == Dbl(100, 800)

\* int(a / d) for a double a and d a power of two: the division is exact,
\* and int truncates toward zero.
truncdiv[a \in Doubles, d \in Int] ==
    LET neg == a.n < 0 \/ (a.n = 0 /\ a.e < 0)
        an == IF neg THEN -a.n ELSE a.n
        ae == IF neg THEN -a.e ELSE a.e
        q == IF an % (1000 * d) = 0 /\ ae < 0 /\ an > 0
             THEN (an \div (1000 * d)) - 1
             ELSE an \div (1000 * d)
    IN  IF neg THEN -q ELSE q

\* get_string_width(text, "Helvetica", font_size): the stringWidth of
\* reportlab, (sum of the glyph widths) * 0.001 * size.
get_string_width(text, font_size) ==
    fmul[font_size, fmul[glyphSum(text), Milli]]

(***************************************************************************)
(* create_toc_page: layout constants (points).                             *)
(***************************************************************************)
width == 612
height == 792
title_font_size == 24
text_font_size == 12
line_height == 20
margin_left == 72
margin_right == 72
dot_spacing == 4
page_number_width == 40
indent == 20
max_text_width == width - margin_left - margin_right - page_number_width - 50
top_margin == 72
bottom_margin == 72

\* format_display_name: the file name without its final extension.
format_display_name(filename) == splitext(filename).base

\* wrap_text: greedy word wrap.  The widths are doubles: the test of
\* pdf.py 66 is (current_width + word_width) + space_width <= max_width, and
\* pdf.py 68 adds word_width + space_width to current_width.
\* One iteration of the loop of wrap_text, given the two widths it
\* measures: the word joins the current line or starts a new one.
wrapStep(st, word, word_width, space_width) ==
    IF fle[fadd[fadd[st.current_width, word_width], space_width],
           st.max_width]
    THEN [st EXCEPT !.current_line = Append(@, word),
                    !.current_width = fadd[@, fadd[word_width, space_width]]]
    ELSE [st EXCEPT !.lines = IF st.current_line # << >>
                              THEN Append(@, join(st.current_line))
                              ELSE @,
                    !.current_line = << word >>,
                    !.current_width = word_width]

\* One iteration of the loop of wrap_text.
wrapWord(st, word) ==
    wrapStep(st, word,
             get_string_width(word, text_font_size),
             IF st.current_line # << >>
             THEN get_string_width(<< " " >>, text_font_size)
             ELSE float(0))

\* The loop over the words lo..hi in order; the range is halved to keep the
\* evaluation shallow on long texts.  current_width is never negative: the
\* test on it has the first half's state computed before the second half
\* is entered.
RECURSIVE wrapFrom(_, _, _, _)
wrapFrom(st, words, lo, hi) ==
    IF lo > hi \/ st.current_width.n < 0 THEN st
    ELSE IF lo = hi THEN wrapWord(st, words[lo])
    ELSE wrapFrom(wrapFrom(st, words, lo, (lo + hi) \div 2),
                  words, ((lo + hi) \div 2) + 1, hi)

\* The state of wrap_text after its loop, for a max_width that is a whole
\* number of points.
wrapLoop(words, max_width) ==
    wrapFrom([lines |-> << >>, current_line |-> << >>,
              current_width |-> float(0),
              max_width |-> float(max_width)],
             words, 1, Len(words))

wrapLines(text, max_width) == wrapLoop(split(text), max_width)

\* wrap_text without the flush of the last line after the loop.
wrap_text_unflushed(text, max_width) == wrapLines(text, max_width).lines

\* The end of wrap_text: the line being filled is the last line.
wrapFlush(st) ==
    IF st.current_line # << >>
    THEN Append(st.lines, join(st.current_line))
    ELSE st.lines

wrap_text(text, max_width) == wrapFlush(wrapLines(text, max_width))

TocTitle == << "T", "a", "b", "l", "e", " ", "o", "f", " ",
               "C", "o", "n", "t", "e", "n", "t", "s" >>

\* One drawString call of create_toc_page: the page it lands on, its
\* vertical position, what it is, its text, a number (the page number for
\* "num", the count of dots for "dots", the x offset otherwise), and the
\* index of the entry it is drawn for (0 for the title).
Draw(page, y, kind, text, n, entry) ==
    [page |-> page, y |-> y, kind |-> kind, text |-> text, n |-> n,
     entry |-> entry]

\* A further line of an entry drawn with the page number again.
tocContinuationNumbered(st, line, entry) ==
    LET np == st.y < bottom_margin
        y == IF np THEN height - top_margin ELSE st.y
        page == IF np THEN st.page + 1 ELSE st.page
    IN  [st EXCEPT !.y = y - line_height,
                   !.page = page,
                   !.draws = @ \o << Draw(page, y, "cont", line,
                                          margin_left + indent, entry),
                                     Draw(page, y, "num", << >>, 0, entry) >>]

\* A further line of an entry drawn without the check for a new page.
tocContinuationNoBreak(st, line, entry) ==
    [st EXCEPT !.y = st.y - line_height,
               !.draws = Append(@, Draw(st.page, st.y, "cont", line,
                                        margin_left + indent, entry))]

\* One iteration of the loop over lines[1:] of an entry.
tocContinuationLine(st, line, entry) ==
    LET np == st.y < bottom_margin
        y == IF np THEN height - top_margin ELSE st.y
        page == IF np THEN st.page + 1 ELSE st.page
    IN  [st EXCEPT !.y = y - line_height,
                   !.page = page,
                   !.draws = Append(@, Draw(page, y, "cont", line,
                                            margin_left + indent, entry))]

\* The loop over lines[1:] of one entry, lines lo..hi in order; the range
\* is halved to keep the evaluation shallow on tall entries.
RECURSIVE tocContinuation(_, _, _, _, _)
tocContinuation(st, lines, lo, hi, entry) ==
    IF lo > hi \/ st.error THEN st
    ELSE IF lo = hi THEN tocContinuationLine(st, lines[lo], entry)
    ELSE tocContinuation(tocContinuation(st, lines, lo, (lo + hi) \div 2, entry),
                         lines, ((lo + hi) \div 2) + 1, hi, entry)

\* The number of dots when the page-number column is not kept free.
dot_count_to_margin(text_width) ==
    truncdiv[fsub[float(width - margin_left - margin_right), text_width],
             dot_spacing]

\* num_dots (pdf.py 116-118): the dots that go between a first line of the
\* given width and the page-number column.
dot_count(text_width) ==
    LET dots_width == fsub[fsub[float(width - margin_left - margin_right),
                                text_width],
                           float(page_number_width)]
    IN  truncdiv[dots_width, dot_spacing]

\* len(range(n)): the number of dots drawn for num_dots = n.
range_len(n) == IF n > 0 THEN n ELSE 0

\* The first line of an entry at (page, y), with its dots and its number.
tocFirstRow(first_line, page_num, entry, page, y) ==
    << Draw(page, y, "first", first_line, margin_left, entry),
       Draw(page, y, "dots", << "." >>,
            range_len(dot_count(get_string_width(first_line, text_font_size))),
            entry),
       Draw(page, y, "num", str(page_num), page_num, entry) >>

\* An entry drawn from (page, y) on: its first row, then the further lines.
tocEntryAt(st, lines, page_num, entry, page, y) ==
    tocContinuation(
        [st EXCEPT !.y = y - line_height,
                   !.page = page,
                   !.draws = @ \o tocFirstRow(lines[1], page_num, entry,
                                              page, y)],
        lines, 2, Len(lines), entry)

\* The body of the loop for the wrapped lines of an entry, without its
\* check for a new page.
tocEntryLinesSamePage(st, lines, page_num, entry) ==
    IF st.error \/ lines = << >>
    THEN [st EXCEPT !.error = TRUE]
    ELSE tocEntryAt(st, lines, page_num, entry, st.page, st.y)

\* The body of the loop without its check for a new page.
tocEntrySamePage(st, filename, page_num, entry) ==
    tocEntryLinesSamePage(
        st, wrap_text(format_display_name(filename), max_text_width),
        page_num, entry)

\* The check for a new page (pdf.py 106-107): the page and the cursor an
\* entry of n lines starts at.  start_new_page gives a new page when the
\* lines do not all fit above the bottom margin.
entryPage(st, n) ==
    IF st.y - (n * line_height) < bottom_margin THEN st.page + 1 ELSE st.page
entryY(st, n) ==
    IF st.y - (n * line_height) < bottom_margin
    THEN height - top_margin ELSE st.y

\* The body of the loop for the wrapped lines of an entry.  The check for a
\* new page comes first, also for an entry of no lines; then lines[0]
\* raises IndexError when there is none (pdf.py 110).
tocEntryLines(st, lines, page_num, entry) ==
    IF st.error THEN st
    ELSE IF lines = << >>
    THEN [st EXCEPT !.error = TRUE,
                    !.page = entryPage(st, 0),
                    !.y = entryY(st, 0)]
    ELSE tocEntryAt(st, lines, page_num, entry,
                    entryPage(st, Len(lines)), entryY(st, Len(lines)))

\* The body of the loop over zip(filenames, page_numbers) for one entry.
tocEntry(st, filename, page_num, entry) ==
    tocEntryLines(
        st, wrap_text(format_display_name(filename), max_text_width),
        page_num, entry)

\* The loop over zip(filenames, page_numbers), entries lo..hi in order; the
\* range is halved to keep the evaluation shallow on long lists.
RECURSIVE tocEntries(_, _, _, _, _)
tocEntries(st, filenames, page_numbers, lo, hi) ==
    IF lo > hi \/ st.error THEN st
    ELSE IF lo = hi THEN tocEntry(st, filenames[lo], page_numbers[lo], lo)
    ELSE tocEntries(tocEntries(st, filenames, page_numbers,
                               lo, (lo + hi) \div 2),
                    filenames, page_numbers, ((lo + hi) \div 2) + 1, hi)

\* draw_title(y) - line_height: the cursor below the title.
draw_title(y) == y - (title_font_size + line_height)

\* The drawing done by create_toc_page: the final cursor, the number of
\* pages, every drawString in order, and whether lines[0] raised.
toc_layout(filenames, page_numbers) ==
    LET y0 == height - top_margin
    IN  tocEntries([y |-> draw_title(y0) - line_height,
                    page |-> 1,
                    draws |-> << Draw(1, y0, "title", TocTitle, 0, 0) >>,
                    error |-> FALSE],
                   filenames, page_numbers, 1,
                   IF Len(filenames) < Len(page_numbers)
                   THEN Len(filenames) ELSE Len(page_numbers))

(***************************************************************************)
(* create_title_page: the font size the file name is drawn at.             *)
(***************************************************************************)
\* max_width of create_title_page (pdf.py 155-156):
\* width - (2 * (width * 0.1)).
title_max_width == fsub[float(width), fmul[2, fmul[width, Tenth]]]

\* The loop of create_title_page stopping at a floor of 14.
RECURSIVE shrink_to_14(_, _)
shrink_to_14(filename, font_size) ==
    IF flt[title_max_width, get_string_width(filename, font_size)]
       /\ font_size > 14
    THEN shrink_to_14(filename, font_size - 1)
    ELSE font_size

RECURSIVE shrink(_, _)
shrink(filename, font_size) ==
    IF flt[title_max_width, get_string_width(filename, font_size)]
       /\ font_size > 12
    THEN shrink(filename, font_size - 1)
    ELSE font_size

title_font(filename) == shrink(filename, 24)

(***************************************************************************)
(* Files.                                                                  *)
(***************************************************************************)
\* A page: what it is ("toc", "title", "content"), the file it comes from,
\* its index there, what is drawn on it (TOC entries, or the title with its
\* font size), and the footers overlaid on it, oldest first.
Page(kind, name, idx, body, foot) ==
    [kind |-> kind, name |-> name, idx |-> idx, body |-> body, foot |-> foot]

\* A file: valid is FALSE for a file no PdfReader can read (not a PDF,
\* empty, or cut short by a failed write).
Doc(valid, pages, outline) ==
    [valid |-> valid, pages |-> pages, outline |-> outline]

Unreadable == Doc(FALSE, << >>, << >>)

\* A source PDF of c pages.
SourceDoc(name, c) ==
    Doc(TRUE, [k \in 1..c |-> Page("content", name, k, << >>, << >>)], << >>)

\* The file system operations the code uses.
exists(d, name) == name \in DOMAIN d

write(d, name, doc) == [x \in DOMAIN d \cup {name} |-> IF x = name THEN doc ELSE d[x]]

unlink(d, name) == [x \in DOMAIN d \ {name} |-> d[x]]

(***************************************************************************)
(* sw_core/domains/files.py                                                *)
(***************************************************************************)
RECURSIVE uniqueFrom(_, _, _, _)
uniqueFrom(directory, base, ext, counter) ==
    IF (base \o << "_" >> \o str(counter) \o ext) \in directory
    THEN uniqueFrom(directory, base, ext, counter + 1)
    ELSE base \o << "_" >> \o str(counter) \o ext

\* get_unique_filename with "if" for "while": the counter is tried once.
get_unique_filename_once(directory, base_name) ==
    IF base_name \notin directory
    THEN base_name
    ELSE splitext(base_name).base \o << "_", "1" >> \o splitext(base_name).ext

\* get_unique_filename(directory, base_name); directory is the set of the
\* names that exist in it.
get_unique_filename(directory, base_name) ==
    IF base_name \notin directory
    THEN base_name
    ELSE uniqueFrom(directory, splitext(base_name).base,
                    splitext(base_name).ext, 1)

\* f"{base}_{counter}{ext}"
suffixed(base_name, k) ==
    splitext(base_name).base \o << "_" >> \o str(k) \o splitext(base_name).ext

\* The names get_unique_filename tests and finds existing: base_name, then
\* the suffixed names up to the first that does not exist.
tested_existing(directory, base_name) ==
    IF base_name \notin directory THEN {}
    ELSE {base_name} \cup
         { suffixed(base_name, k) : k \in
             { j \in 1..Cardinality(directory) :
                 \A i \in 1..j : suffixed(base_name, i) \in directory } }

(***************************************************************************)
(* merge_pdfs: the pure parts.                                             *)
(***************************************************************************)
pdf_ext == << ".", "p", "d", "f" >>
temp_ext == << ".", "t", "e", "m", "p" >>
merged_prefix == << "m", "e", "r", "g", "e", "d", "_", "p", "d", "f", "s" >>
merged_pdfs_pdf == merged_prefix \o pdf_ext

\* input_dir.glob("*.pdf")
glob_pdf(d) == { f \in DOMAIN d : endswith(f, pdf_ext) }

\* sorted(S) for a set of names: the name with i - 1 names below it comes
\* i-th.
sorted(S) ==
    [i \in 1..Cardinality(S) |->
        CHOOSE x \in S : Cardinality({ y \in S : StrLess(y, x) }) = i - 1]

\* list_pdf_files with the names in descending order.
sorted_desc(S) ==
    [i \in 1..Cardinality(S) |->
        CHOOSE x \in S : Cardinality({ y \in S : StrLess(x, y) }) = i - 1]

list_pdf_files_desc(d, output_name) ==
    sorted_desc({ f \in glob_pdf(d) :
                    f # output_name /\ ~startswith(f, merged_prefix) })

\* The list of PDF files to merge (pdf.py 229-230).
list_pdf_files(d, output_name) ==
    sorted({ f \in glob_pdf(d) :
                f # output_name /\ ~startswith(f, merged_prefix) })

\* What the loop of pdf.py 252-255 has added to current_page after its
\* iterations lo..hi (i counts from 1, so that page_counts[i] is Python's
\* page_counts[i-1]); the range is halved to keep the evaluation shallow on
\* long lists.
RECURSIVE page_numbers_from(_, _, _)
page_numbers_from(page_counts, lo, hi) ==
    IF lo > hi THEN 0
    ELSE IF lo = hi THEN page_counts[lo] + 1
    ELSE page_numbers_from(page_counts, lo, (lo + hi) \div 2)
         + page_numbers_from(page_counts, ((lo + hi) \div 2) + 1, hi)

\* calc_page_numbers without the "+ 1" of the title page.
RECURSIVE page_numbers_no_title(_, _, _)
page_numbers_no_title(page_counts, lo, hi) ==
    IF lo > hi THEN 0
    ELSE IF lo = hi THEN page_counts[lo]
    ELSE page_numbers_no_title(page_counts, lo, (lo + hi) \div 2)
         + page_numbers_no_title(page_counts, ((lo + hi) \div 2) + 1, hi)

calc_page_numbers_no_title(page_counts, n) ==
    [k \in 1..n |-> 4 + page_numbers_no_title(page_counts, 1, k - 1)]

\* The page numbers for the TOC of n files (pdf.py 244-255): current_page
\* starts at 4 and is appended after each iteration.
calc_page_numbers(page_counts, n) ==
    [k \in 1..n |-> 4 + page_numbers_from(page_counts, 1, k - 1)]

\* The entries whose first line is drawn on page p of the TOC, in order:
\* the first line, the page number printed beside it, the entry's index.
toc_body(draws, p) ==
    LET firsts == { k \in 1..Len(draws) :
                        draws[k].kind = "first" /\ draws[k].page = p }
    IN  [j \in 1..Cardinality(firsts) |->
            LET k == CHOOSE x \in firsts :
                        Cardinality({ y \in firsts : y < x }) = j - 1
            IN  [text |-> draws[k].text, num |-> draws[k + 2].n,
                 entry |-> draws[k].entry]]

\* The pages of a layout as a document.
toc_doc_of(layout) ==
    Doc(TRUE,
        [p \in 1..layout.page |->
            Page("toc", << >>, p, toc_body(layout.draws, p), << >>)],
        << >>)

\* create_toc_page returning without a page when there is nothing to list.
toc_doc_skips_empty(filenames, page_numbers) ==
    IF filenames = << >> THEN Doc(TRUE, << >>, << >>)
    ELSE toc_doc_of(toc_layout(filenames, page_numbers))

\* The document create_toc_page saves.
toc_doc(filenames, page_numbers) ==
    toc_doc_of(toc_layout(filenames, page_numbers))

\* The document create_title_page saves: one page with the file name.
title_doc(filename) ==
    Doc(TRUE,
        << Page("title", filename, 1,
                << [text |-> filename, num |-> title_font(filename),
                    entry |-> 0] >>,
                << >>) >>,
        << >>)

\* add_page_numbers: the document it writes from the one it reads.
footer(i, total_pages) == [i |-> i, of |-> total_pages]

\* number_pages labelling from 0, as range() counts.
number_pages_from_zero(pages, total_pages) ==
    [k \in 1..Len(pages) |->
        [pages[k] EXCEPT !.foot = Append(@, footer(k - 1, total_pages))]]

number_pages(pages, total_pages) ==
    [k \in 1..Len(pages) |->
        [pages[k] EXCEPT !.foot = Append(@, footer(k, total_pages))]]

\* copy_outline falling back to bookmark.get('/Page', 0)'s default.
copy_outline_default_page(outline) ==
    [k \in 1..Len(outline) |-> [title |-> outline[k].title, page |-> 0]]

copy_outline(outline) ==
    [k \in 1..Len(outline) |->
        [title |-> outline[k].title, page |-> outline[k].page]]

numbered_doc(doc, total_pages) ==
    Doc(TRUE, number_pages(doc.pages, total_pages), copy_outline(doc.outline))

(***************************************************************************)
(* The state machine.                                                      *)
(***************************************************************************)
Procs == {1, 2}             \* invocations that may be in progress

\* Temp names.  tempfile.NamedTemporaryFile hands out a name that no file of
\* the temp area has; the names are interchangeable, so the model takes the
\* least free one.  An invocation holds at most two temp files at a time and
\* leaves at most two behind when it fails.
TmpIds == 1..(2 * MaxMerges + 2)

mktemp(t) == CHOOSE id \in TmpIds \ DOMAIN t : \A o \in TmpIds \ DOMAIN t : id <= o

a_pdf == << "a" >> \o pdf_ext
b_pdf == << "b" >> \o pdf_ext
n_txt == << "n", ".", "t", "x", "t" >>
out_pdf == << "o", "u", "t" >> \o pdf_ext
out_1_pdf == << "o", "u", "t", "_", "1" >> \o pdf_ext

merged_output == << "m", "e", "r", "g", "e", "d", "_", "o", "u", "t", "p", "u", "t" >>

\* The output names a caller asks for: a custom one, the default, and one
\* without the .pdf extension.  The invocations of one behaviour ask for the
\* same name.
OutputNames == { out_pdf, merged_pdfs_pdf, merged_output }

None == << >>               \* the "no result" sentinel

\* The locals of an invocation that has not started; requested is the
\* output name its caller passes.
Idle(requested, d, t) ==
    [pc |-> "idle", requested |-> requested, output_name |-> << >>,
     pdf_files |-> << >>, page_counts |-> << >>, page_numbers |-> << >>,
     toc_path |-> 0, writer |-> [pages |-> << >>, outline |-> << >>],
     current_page |-> 0, i |-> 0, title_path |-> 0,
     output_path |-> << >>, temp_output |-> << >>, total_pages |-> 0,
     numbered |-> [pages |-> << >>, outline |-> << >>],
     result |-> None, pre |-> d, pretmp |-> t]

\* The directories a behaviour may start from: source PDFs a.pdf and b.pdf
\* of 0..MaxPages pages, a text file, and earlier files out.pdf, out_1.pdf.
InitDirs ==
    { [x \in S |-> IF x = a_pdf THEN SourceDoc(x, ca)
                   ELSE IF x = b_pdf THEN SourceDoc(x, cb)
                   ELSE IF x = n_txt THEN Unreadable
                   ELSE SourceDoc(x, 1)] :
        S \in { T \in SUBSET {a_pdf, b_pdf, n_txt, out_pdf, out_1_pdf} :
                    out_1_pdf \in T => out_pdf \in T },
        ca \in 0..MaxPages, cb \in 0..MaxPages }

\* No call of get_unique_filename on its own has been made.
NoCall == [directory |-> {}, base_name |-> << >>, result |-> << >>,
           called |-> FALSE]

\* No call of a rendering function on its own.
NoLib ==
    [fn |-> "none", filenames |-> << >>, page_numbers |-> << >>,
     text |-> << >>, max_width |-> 0, called |-> FALSE,
     layout |-> [y |-> 0, page |-> 0, draws |-> << >>, error |-> FALSE],
     path |-> 0, lines |-> << >>, font |-> 0,
     input_path |-> << >>, source |-> Unreadable, total_pages |-> 0,
     error |-> FALSE]

\* The command line has not been run.
NoArg == [given |-> FALSE, absolute |-> FALSE, parts |-> << >>]

NoRun == [pc |-> "idle", merge_pdf |-> FALSE, directory |-> NoArg,
          printed |-> << >>, called |-> FALSE]

\* The directories the merges that may meet I/O errors start from: the
\* text file is there only where there is no source PDF, and b.pdf has one
\* page.
FaultDirs ==
    { d \in InitDirs :
        /\ n_txt \in DOMAIN d => DOMAIN d \cap {a_pdf, b_pdf} = {}
        /\ b_pdf \in DOMAIN d => Len(d[b_pdf].pages) = 1 }

Init ==
    /\ dir \in FaultDirs
    /\ tmp = << >>
    /\ \E name \in OutputNames : m = [p \in Procs |-> Idle(name, dir, tmp)]
    /\ merges = 0
    /\ produced = {}
    /\ uq = NoCall
    /\ cli = NoRun
    /\ lib = NoLib

Set(p, rec) == m' = [m EXCEPT ![p] = rec]

\* An exception leaves merge_pdfs: its locals are gone.  The model keeps
\* what the invocation was asked and the paths it had resolved.
Raised(rec) ==
    [Idle(rec.requested, rec.pre, rec.pretmp) EXCEPT
                                      !.pc = "failed",
                                      !.output_path = rec.output_path,
                                      !.temp_output = rec.temp_output]

Raise(p) == Set(p, Raised(m[p]))

\* Start writing an empty output file when there is nothing to merge.
StartWritesEmpty(p) ==
    /\ m[p].pc \in {"idle", "done", "failed"}
    /\ merges < MaxMerges
    /\ merges' = merges + 1
    /\ LET name == m[p].requested
           pdf_files == list_pdf_files(dir, name)
           fresh == [Idle(name, dir, tmp) EXCEPT !.output_name = name,
                                                 !.pdf_files = pdf_files]
       IN  IF pdf_files = << >>
           THEN /\ Set(p, [fresh EXCEPT !.pc = "done", !.result = None])
                /\ dir' = write(dir, name, Doc(TRUE, << >>, << >>))
           ELSE /\ Set(p, [fresh EXCEPT !.pc = "count", !.i = 1])
                /\ dir' = dir
    /\ UNCHANGED <<tmp, produced, uq, cli, lib>>

\* merge_pdfs is entered: list the PDF files (pdf.py 228-234).
Enter(p) ==
    /\ m[p].pc \in {"idle", "done", "failed"}
    /\ merges < MaxMerges
    /\ merges' = merges + 1
    /\ LET name == m[p].requested
           pdf_files == list_pdf_files(dir, name)
           fresh == [Idle(name, dir, tmp) EXCEPT !.output_name = name,
                                                 !.pdf_files = pdf_files]
       IN  IF pdf_files = << >>
           THEN Set(p, [fresh EXCEPT !.pc = "done", !.result = None])
           ELSE Set(p, [fresh EXCEPT !.pc = "count", !.i = 1])
    /\ UNCHANGED <<dir, tmp, produced, uq>>

\* merge_pdfs is called by a program (the tests call it so).
Start(p) == Enter(p) /\ UNCHANGED <<cli, lib>>

\* The page count loop entered after a temp file has been created.
ReadCountTempFirst(p) ==
    /\ m[p].pc = "count"
    /\ LET f == m[p].pdf_files[m[p].i]
       IN  IF exists(dir, f) /\ dir[f].valid
           THEN Set(p, [m[p] EXCEPT
                    !.page_counts = Append(@, Len(dir[f].pages)),
                    !.i = @ + 1,
                    !.pc = IF m[p].i = Len(m[p].pdf_files)
                           THEN "offsets" ELSE "count"])
           ELSE Raise(p)
    /\ tmp' = IF m[p].i = 1 THEN write(tmp, mktemp(tmp), Unreadable) ELSE tmp
    /\ UNCHANGED <<dir, merges, produced, uq, cli, lib>>

\* One iteration of the page count loop (pdf.py 238-241).
ReadCount(p) ==
    /\ m[p].pc = "count"
    /\ LET f == m[p].pdf_files[m[p].i]
       IN  IF exists(dir, f) /\ dir[f].valid
           THEN Set(p, [m[p] EXCEPT
                    !.page_counts = Append(@, Len(dir[f].pages)),
                    !.i = @ + 1,
                    !.pc = IF m[p].i = Len(m[p].pdf_files)
                           THEN "offsets" ELSE "count"])
           ELSE Raise(p)
    /\ UNCHANGED <<dir, tmp, merges, produced, uq, cli, lib>>

\* The page numbers for the TOC counted from page 1 instead of page 4.
CalcPageNumbersFromOne(p) ==
    /\ m[p].pc = "offsets"
    /\ Set(p, [m[p] EXCEPT
            !.page_numbers =
                [k \in 1..Len(m[p].pdf_files) |->
                    calc_page_numbers(m[p].page_counts,
                                      Len(m[p].pdf_files))[k] - 3],
            !.pc = "toc"])
    /\ UNCHANGED <<dir, tmp, merges, produced, uq, cli, lib>>

\* The page numbers for the TOC (pdf.py 244-257).
CalcPageNumbers(p) ==
    /\ m[p].pc = "offsets"
    /\ Set(p, [m[p] EXCEPT
            !.page_numbers = calc_page_numbers(m[p].page_counts,
                                               Len(m[p].pdf_files)),
            !.pc = "toc"])
    /\ UNCHANGED <<dir, tmp, merges, produced, uq, cli, lib>>

\* create_toc_page (pdf.py 260): a new temp file holding the TOC.
CreateToc(p) ==
    /\ m[p].pc = "toc"
    /\ LET id == mktemp(tmp) IN
        IF toc_layout(m[p].pdf_files, m[p].page_numbers).error
        THEN /\ tmp' = write(tmp, id, Unreadable)
             /\ Raise(p)
        ELSE /\ tmp' = write(tmp, id, toc_doc(m[p].pdf_files, m[p].page_numbers))
             /\ Set(p, [m[p] EXCEPT !.toc_path = id, !.pc = "addtoc"])
    /\ UNCHANGED <<dir, merges, produced, uq, cli, lib>>

\* The TOC pages go into the writer and the TOC temp file is deleted at once.
AddTocThenUnlink(p) ==
    /\ m[p].pc = "addtoc"
    /\ IF exists(tmp, m[p].toc_path) /\ tmp[m[p].toc_path].valid
       THEN /\ Set(p, [m[p] EXCEPT
                    !.writer = [pages |-> tmp[m[p].toc_path].pages,
                                outline |-> << >>],
                    !.current_page = Len(tmp[m[p].toc_path].pages),
                    !.i = 1,
                    !.pc = "title"])
            /\ tmp' = unlink(tmp, m[p].toc_path)
       ELSE /\ Raise(p)
            /\ tmp' = tmp
    /\ UNCHANGED <<dir, merges, produced, uq, cli, lib>>

\* The TOC pages go first into the writer (pdf.py 263-272).
AddToc(p) ==
    /\ m[p].pc = "addtoc"
    /\ IF exists(tmp, m[p].toc_path) /\ tmp[m[p].toc_path].valid
       THEN Set(p, [m[p] EXCEPT
                !.writer = [pages |-> tmp[m[p].toc_path].pages,
                            outline |-> << >>],
                !.current_page = Len(tmp[m[p].toc_path].pages),
                !.i = 1,
                !.pc = "title"])
       ELSE Raise(p)
    /\ UNCHANGED <<dir, tmp, merges, produced, uq, cli, lib>>

\* create_title_page for the i-th file (pdf.py 276).
CreateTitle(p) ==
    /\ m[p].pc = "title"
    /\ LET id == mktemp(tmp) IN
        /\ tmp' = write(tmp, id, title_doc(m[p].pdf_files[m[p].i]))
        /\ Set(p, [m[p] EXCEPT !.title_path = id, !.pc = "addtitle"])
    /\ UNCHANGED <<dir, merges, produced, uq, cli, lib>>

\* The title page and its outline entry (pdf.py 277-285).
AddTitle(p) ==
    /\ m[p].pc = "addtitle"
    /\ IF exists(tmp, m[p].title_path) /\ tmp[m[p].title_path].valid
       THEN LET title_pages == tmp[m[p].title_path].pages
                current_page == m[p].current_page + Len(title_pages)
            IN  Set(p, [m[p] EXCEPT
                    !.writer = [pages |-> @.pages \o title_pages,
                                outline |-> Append(@.outline,
                                    [title |-> m[p].pdf_files[m[p].i],
                                     page |-> current_page - 1])],
                    !.current_page = current_page,
                    !.pc = "content"])
       ELSE Raise(p)
    /\ UNCHANGED <<dir, tmp, merges, produced, uq, cli, lib>>

\* The content pages of the i-th file added twice.
AddContentTwice(p) ==
    /\ m[p].pc = "content"
    /\ LET f == m[p].pdf_files[m[p].i]
       IN  IF exists(dir, f) /\ dir[f].valid
           THEN Set(p, [m[p] EXCEPT
                    !.writer = [pages |-> @.pages \o dir[f].pages \o dir[f].pages,
                                outline |-> @.outline],
                    !.current_page = @ + 2 * Len(dir[f].pages),
                    !.pc = "unlink"])
           ELSE Raise(p)
    /\ UNCHANGED <<dir, tmp, merges, produced, uq, cli, lib>>

\* The content pages of the i-th file (pdf.py 288-292).
AddContent(p) ==
    /\ m[p].pc = "content"
    /\ LET f == m[p].pdf_files[m[p].i]
       IN  IF exists(dir, f) /\ dir[f].valid
           THEN Set(p, [m[p] EXCEPT
                    !.writer = [pages |-> @.pages \o dir[f].pages,
                                outline |-> @.outline],
                    !.current_page = @ + Len(dir[f].pages),
                    !.pc = "unlink"])
           ELSE Raise(p)
    /\ UNCHANGED <<dir, tmp, merges, produced, uq, cli, lib>>

\* The title page's temp file is left behind.
UnlinkTitleSkipped(p) ==
    /\ m[p].pc = "unlink"
    /\ Set(p, [m[p] EXCEPT
            !.i = @ + 1,
            !.pc = IF m[p].i = Len(m[p].pdf_files) THEN "resolve" ELSE "title"])
    /\ UNCHANGED <<dir, tmp, merges, produced, uq, cli, lib>>

\* os.unlink(title_path), then the next file (pdf.py 295).
UnlinkTitle(p) ==
    /\ m[p].pc = "unlink"
    /\ IF exists(tmp, m[p].title_path)
       THEN /\ tmp' = unlink(tmp, m[p].title_path)
            /\ Set(p, [m[p] EXCEPT
                    !.i = @ + 1,
                    !.pc = IF m[p].i = Len(m[p].pdf_files)
                           THEN "resolve" ELSE "title"])
       ELSE /\ tmp' = tmp
            /\ Raise(p)
    /\ UNCHANGED <<dir, merges, produced, uq, cli, lib>>

\* Resolve without the existence check: the requested name is used as is.
ResolveUnchecked(p) ==
    /\ m[p].pc = "resolve"
    /\ Set(p, [m[p] EXCEPT
            !.output_path = m[p].output_name,
            !.temp_output = m[p].output_name \o temp_ext,
            !.pc = "writetemp"])
    /\ UNCHANGED <<dir, tmp, merges, produced, uq, cli, lib>>

\* The output path is resolved (pdf.py 298-304).
Resolve(p) ==
    /\ m[p].pc = "resolve"
    /\ LET output_name == IF exists(dir, m[p].output_name)
                          THEN get_unique_filename(DOMAIN dir, m[p].output_name)
                          ELSE m[p].output_name
       IN  Set(p, [m[p] EXCEPT
                !.output_name = output_name,
                !.output_path = output_name,
                !.temp_output = output_name \o temp_ext,
                !.pc = "writetemp"])
    /\ UNCHANGED <<dir, tmp, merges, produced, uq, cli, lib>>

\* open(temp_output, 'wb') (pdf.py 306): the file is there, and empty until
\* the writer has written it.
OpenTemp(p) ==
    /\ m[p].pc = "writetemp"
    /\ dir' = write(dir, m[p].temp_output, Unreadable)
    /\ Set(p, [m[p] EXCEPT !.pc = "writing"])
    /\ UNCHANGED <<tmp, merges, produced, uq, cli, lib>>

\* The assembled document is written (pdf.py 307) through the file object
\* that line 306 opened.  When the name has been unlinked since then, the
\* data goes to a file that has no name any more and the directory stays
\* without temp_output.  With two invocations a file that has the name at
\* this point is the one that was opened: the name is removed only by the
\* other invocation's line 319, after which its output path exists and no
\* invocation resolves this temp name again.
WriteTemp(p) ==
    /\ m[p].pc = "writing"
    /\ dir' = IF exists(dir, m[p].temp_output)
              THEN write(dir, m[p].temp_output,
                         Doc(TRUE, m[p].writer.pages, m[p].writer.outline))
              ELSE dir
    /\ Set(p, [m[p] EXCEPT !.pc = "readtotal"])
    /\ UNCHANGED <<tmp, merges, produced, uq, cli, lib>>

\* The true total is read back (pdf.py 310-312).
ReadTotal(p) ==
    /\ m[p].pc = "readtotal"
    /\ IF exists(dir, m[p].temp_output) /\ dir[m[p].temp_output].valid
       THEN Set(p, [m[p] EXCEPT
                !.total_pages = Len(dir[m[p].temp_output].pages),
                !.pc = "number"])
       ELSE Raise(p)
    /\ UNCHANGED <<dir, tmp, merges, produced, uq, cli, lib>>

\* add_page_numbers(temp_output, output_path, total_pages) is called
\* (pdf.py 315); it reads temp_output (pdf.py 185) and draws the footers
\* (pdf.py 186-216): the numbered document is in its writer.
AddPageNumbers(p) ==
    /\ m[p].pc = "number"
    /\ IF exists(dir, m[p].temp_output) /\ dir[m[p].temp_output].valid
       THEN Set(p, [m[p] EXCEPT
                !.numbered =
                    [pages |-> numbered_doc(dir[m[p].temp_output],
                                            m[p].total_pages).pages,
                     outline |-> numbered_doc(dir[m[p].temp_output],
                                              m[p].total_pages).outline],
                !.pc = "opening"])
       ELSE Raise(p)
    /\ UNCHANGED <<dir, tmp, merges, produced, uq, cli, lib>>

\* open(output_path, 'wb') (pdf.py 219): the file at output_path is there,
\* empty until the writer has written it.
OpenNumbered(p) ==
    /\ m[p].pc = "opening"
    /\ dir' = write(dir, m[p].output_path, Unreadable)
    /\ Set(p, [m[p] EXCEPT !.pc = "numbering"])
    /\ UNCHANGED <<tmp, merges, produced, uq, cli, lib>>

\* The numbered document is written to output_path (pdf.py 220).
WriteNumbered(p) ==
    /\ m[p].pc = "numbering"
    /\ dir' = write(dir, m[p].output_path,
                    Doc(TRUE, m[p].numbered.pages, m[p].numbered.outline))
    /\ Set(p, [m[p] EXCEPT !.pc = "cleanup_toc"])
    /\ UNCHANGED <<tmp, merges, produced, uq, cli, lib>>

\* os.unlink(toc_path) (pdf.py 318).
UnlinkToc(p) ==
    /\ m[p].pc = "cleanup_toc"
    /\ IF exists(tmp, m[p].toc_path)
       THEN /\ tmp' = unlink(tmp, m[p].toc_path)
            /\ Set(p, [m[p] EXCEPT !.pc = "cleanup_temp"])
       ELSE /\ tmp' = tmp
            /\ Raise(p)
    /\ UNCHANGED <<dir, merges, produced, uq, cli, lib>>

\* os.unlink(temp_output) and the return of output_path (pdf.py 319-322).
UnlinkTemp(p) ==
    /\ m[p].pc = "cleanup_temp"
    /\ IF exists(dir, m[p].temp_output)
       THEN /\ dir' = unlink(dir, m[p].temp_output)
            /\ Set(p, [m[p] EXCEPT !.pc = "done", !.result = m[p].output_path])
            /\ produced' = produced \cup {m[p].output_path}
       ELSE /\ dir' = dir
            /\ Raise(p)
            /\ produced' = produced
    /\ UNCHANGED <<tmp, merges, uq, cli, lib>>

\* merge_pdfs is entered and the listing of input_dir (pdf.py 229-230) does
\* not give the directory's files: it raises, before anything else is done,
\* or, the directory being unreadable, it yields no path, and merge_pdfs
\* reports that there is nothing to merge (pdf.py 232-234).
ListingFails(p) ==
    /\ m[p].pc \in {"idle", "done", "failed"}
    /\ merges < MaxMerges
    /\ merges' = merges + 1
    /\ \E raised \in BOOLEAN :
        IF raised
        THEN Set(p, Raised([Idle(m[p].requested, dir, tmp) EXCEPT
                                !.output_name = m[p].requested]))
        ELSE Set(p, [Idle(m[p].requested, dir, tmp) EXCEPT
                        !.output_name = m[p].requested,
                        !.pc = "done", !.result = None])
    /\ UNCHANGED <<dir, tmp, produced, uq, cli, lib>>

\* An I/O error at a step that reads, writes, tests or removes a file: the
\* exception propagates out of merge_pdfs.  What the invocation had already
\* created stays: the temp file of a rendering that fails after it has made
\* it, and the file an earlier open had made, which a failed write leaves
\* cut short.  An open that fails makes no file, and an unlink that fails
\* removes none.
StepFails(p) ==
    /\ m[p].pc \in {"count", "toc", "addtoc", "title", "addtitle", "content",
                    "unlink", "resolve", "writetemp", "writing", "readtotal",
                    "number", "opening", "numbering", "cleanup_toc",
                    "cleanup_temp"}
    /\ Raise(p)
    /\ IF m[p].pc \in {"toc", "title"}
       THEN \E made \in BOOLEAN :
                tmp' = IF made THEN write(tmp, mktemp(tmp), Unreadable)
                       ELSE tmp
       ELSE tmp' = tmp
    /\ dir' = dir
    /\ UNCHANGED <<merges, produced, uq, cli, lib>>

\* An I/O error inside os.path.exists, which get_unique_filename tests the
\* names with (pdf.py 300; files.py 7, 12): os.path.exists swallows the error
\* and answers False, for a name that exists, and get_unique_filename returns
\* that name.  Nothing is raised: merge_pdfs goes on with it.
ExistsMisled(p) ==
    /\ m[p].pc = "resolve"
    /\ exists(dir, m[p].output_name)
    /\ \E name \in tested_existing(DOMAIN dir, m[p].output_name) :
        Set(p, [m[p] EXCEPT
                !.output_name = name,
                !.output_path = name,
                !.temp_output = name \o temp_ext,
                !.pc = "writetemp"])
    /\ UNCHANGED <<dir, tmp, merges, produced, uq, cli, lib>>

\* An I/O error of merge_pdfs: at its first file operation, the listing, at
\* a later step, which raises, or in a test os.path.exists makes, which does
\* not.
IOError(p) == ListingFails(p) \/ StepFails(p) \/ ExistsMisled(p)

Next ==
    \/ Start(1)
    \/ ReadCount(1)
    \/ CalcPageNumbers(1)
    \/ CreateToc(1)
    \/ AddToc(1)
    \/ CreateTitle(1)
    \/ AddTitle(1)
    \/ AddContent(1)
    \/ UnlinkTitle(1)
    \/ Resolve(1)
    \/ OpenTemp(1)
    \/ WriteTemp(1)
    \/ ReadTotal(1)
    \/ AddPageNumbers(1)
    \/ OpenNumbered(1)
    \/ WriteNumbered(1)
    \/ UnlinkToc(1)
    \/ UnlinkTemp(1)
    \/ IOError(1)

Spec == Init /\ [][Next]_vars

(***************************************************************************)
(* Merges that meet no I/O error, also from directories of many files,     *)
(* where the TOC takes two and three pages.                                *)
(***************************************************************************)
TwoPageToc == 30        \* files in the directory whose TOC takes 2 pages
ThreePageToc == 62      \* files in the directory whose TOC takes 3 pages

\* "00.pdf", "01.pdf", ...
numbered_pdf(k) == << Digits[(k \div 10) + 1], Digits[(k % 10) + 1] >> \o pdf_ext

\* A directory of n source PDFs, of 0..MaxPages pages in turn.
ManyDir(n) ==
    [x \in { numbered_pdf(k) : k \in 0..(n - 1) } |->
        SourceDoc(x, (CHOOSE k \in 0..(n - 1) : numbered_pdf(k) = x)
                        % (MaxPages + 1))]

InitFaultFree ==
    /\ dir \in InitDirs \cup { ManyDir(TwoPageToc), ManyDir(ThreePageToc) }
    /\ tmp = << >>
    /\ \E name \in OutputNames : m = [p \in Procs |-> Idle(name, dir, tmp)]
    /\ merges = 0
    /\ produced = {}
    /\ uq = NoCall
    /\ cli = NoRun
    /\ lib = NoLib

NextFaultFree ==
    \/ Start(1)
    \/ ReadCount(1)
    \/ CalcPageNumbers(1)
    \/ CreateToc(1)
    \/ AddToc(1)
    \/ CreateTitle(1)
    \/ AddTitle(1)
    \/ AddContent(1)
    \/ UnlinkTitle(1)
    \/ Resolve(1)
    \/ OpenTemp(1)
    \/ WriteTemp(1)
    \/ ReadTotal(1)
    \/ AddPageNumbers(1)
    \/ OpenNumbered(1)
    \/ WriteNumbered(1)
    \/ UnlinkToc(1)
    \/ UnlinkTemp(1)

SpecFaultFree == InitFaultFree /\ [][NextFaultFree]_vars

(***************************************************************************)
(* The same merges in a program that also calls add_page_numbers on its    *)
(* own, once, while no merge is in progress: on a source, on the text      *)
(* file or on out.pdf, with an output path of the temp area that names no  *)
(* file.                                                                   *)
(***************************************************************************)
NumberInputs == { a_pdf, n_txt, out_pdf, numbered_pdf(1) }

\* add_page_numbers(input_path, output_path, total_pages) (pdf.py 183-220):
\* a file PdfReader cannot read raises at pdf.py 185, before output_path is
\* opened.
CallNumber ==
    /\ lib.fn = "none" /\ ~lib.called
    /\ m[1].pc \in {"idle", "done", "failed"}
    /\ \E f \in NumberInputs \cap DOMAIN dir :
        \E total \in {1, Len(dir[f].pages)} :
            /\ lib' = [lib EXCEPT !.fn = "add_page_numbers",
                                  !.called = TRUE,
                                  !.input_path = f,
                                  !.source = dir[f],
                                  !.total_pages = total,
                                  !.path = mktemp(tmp),
                                  !.error = ~dir[f].valid]
            /\ tmp' = IF dir[f].valid
                      THEN write(tmp, mktemp(tmp), numbered_doc(dir[f], total))
                      ELSE tmp
    /\ UNCHANGED <<dir, m, merges, produced, uq, cli>>

NextOutline ==
    \/ Start(1)
    \/ ReadCount(1)
    \/ CalcPageNumbers(1)
    \/ CreateToc(1)
    \/ AddToc(1)
    \/ CreateTitle(1)
    \/ AddTitle(1)
    \/ AddContent(1)
    \/ UnlinkTitle(1)
    \/ Resolve(1)
    \/ OpenTemp(1)
    \/ WriteTemp(1)
    \/ ReadTotal(1)
    \/ AddPageNumbers(1)
    \/ OpenNumbered(1)
    \/ WriteNumbered(1)
    \/ UnlinkToc(1)
    \/ UnlinkTemp(1)
    \/ CallNumber

SpecOutline == InitFaultFree /\ [][NextOutline]_vars

(***************************************************************************)
(* get_unique_filename on its own: a caller asks for a name, creates the   *)
(* file, and asks again (tests/test_pdf_merger.py 380-429).                *)
(***************************************************************************)
MaxFiles == 11      \* files in the directory of the calls below

test_name == << "t", "e", "s", "t" >>

\* Requested names: with an extension, without one, and a dot file.
BaseNames == { out_pdf, test_name, pdf_ext }

InitUnique ==
    /\ dir = << >>
    /\ tmp = << >>
    /\ m = [p \in Procs |-> Idle(out_pdf, dir, tmp)]
    /\ merges = 0
    /\ produced = {}
    /\ \E b \in BaseNames :
        \E S \in SUBSET {b, suffixed(b, 1), suffixed(b, 2), suffixed(b, 3), a_pdf} :
            uq = [NoCall EXCEPT !.directory = S, !.base_name = b]
    /\ cli = NoRun
    /\ lib = NoLib

CallUnique ==
    /\ ~uq.called
    /\ uq' = [uq EXCEPT !.result = get_unique_filename(uq.directory, uq.base_name),
                        !.called = TRUE]
    /\ UNCHANGED <<dir, tmp, m, merges, produced, cli, lib>>

\* The caller creates the file it was given a name for.
Touch ==
    /\ uq.called
    /\ Cardinality(uq.directory) < MaxFiles
    /\ uq' = [uq EXCEPT !.directory = @ \cup {uq.result},
                        !.result = << >>,
                        !.called = FALSE]
    /\ UNCHANGED <<dir, tmp, m, merges, produced, cli, lib>>

NextUnique == CallUnique \/ Touch

SpecUnique == InitUnique /\ [][NextUnique]_vars

(***************************************************************************)
(* The command line (sw_core/main.py), run in the directory /work, which   *)
(* holds the file notes.txt and the directory docs, the model's dir.  The  *)
(* directory argument is a path, relative or absolute, given by its        *)
(* components, or is not given.                                            *)
(***************************************************************************)
Cwd == << "work" >>

RelPath(parts) == [given |-> TRUE, absolute |-> FALSE, parts |-> parts]

AbsPath(parts) == [given |-> TRUE, absolute |-> TRUE, parts |-> parts]

\* No argument; nowhere; notes.txt; ./notes.txt; docs; ../work/docs;
\* /work/docs; /nowhere.
DirectoryArgs ==
    { NoArg,
      RelPath(<< "nowhere" >>),
      RelPath(<< "notes.txt" >>),
      RelPath(<< ".", "notes.txt" >>),
      RelPath(<< "docs" >>),
      RelPath(<< "..", "work", "docs" >>),
      AbsPath(<< "work", "docs" >>),
      AbsPath(<< "nowhere" >>) }

\* The components of a path with "." dropped and ".." taken (no component
\* is a symbolic link).
RECURSIVE normpath(_, _)
normpath(parts, acc) ==
    IF parts = << >> THEN acc
    ELSE IF Head(parts) = "." THEN normpath(Tail(parts), acc)
    ELSE IF Head(parts) = ".."
    THEN normpath(Tail(parts),
                    IF acc = << >> THEN acc ELSE SubSeq(acc, 1, Len(acc) - 1))
    ELSE normpath(Tail(parts), Append(acc, Head(parts)))

\* Path(args.directory).resolve(): the absolute path, a relative one taken
\* from the working directory (main.py 32).
resolve(path) ==
    AbsPath(normpath(IF path.absolute THEN path.parts
                       ELSE Cwd \o path.parts, << >>))

\* str(path) of an absolute path, as the f-strings of main.py 35, 39 print it.
RECURSIVE joined(_)
joined(parts) ==
    IF parts = << >> THEN "" ELSE "/" \o Head(parts) \o joined(Tail(parts))

str_path(path) == IF path.parts = << >> THEN "/" ELSE joined(path.parts)

\* directory.exists()
path_exists(path) ==
    path.parts \in { << >>, Cwd, Cwd \o << "notes.txt" >>, Cwd \o << "docs" >> }

\* directory.is_dir()
is_dir(path) == path.parts \in { << >>, Cwd, Cwd \o << "docs" >> }

\* main returns after printing message (the words, then the path if any).
Refuse(message) ==
    /\ cli' = [cli EXCEPT !.pc = "returned", !.printed = message]
    /\ UNCHANGED <<dir, tmp, m, merges, produced, uq, lib>>

\* main without the test that the path is a directory.
MainNoDirCheck(p) ==
    /\ cli.pc = "idle"
    /\ IF ~cli.merge_pdf
       THEN Refuse(<< >>)
       ELSE IF ~cli.directory.given
       THEN Refuse(<< "Error: Please specify a directory using -dir or --directory" >>)
       ELSE IF ~path_exists(resolve(cli.directory))
       THEN Refuse(<< "Error: Directory does not exist: ",
                      str_path(resolve(cli.directory)) >>)
       ELSE /\ Enter(p)
            /\ cli' = [cli EXCEPT !.pc = "merging", !.called = TRUE]
            /\ lib' = lib

\* main() up to its call of merge_pdfs (main.py 24-42).
Main(p) ==
    /\ cli.pc = "idle"
    /\ IF ~cli.merge_pdf
       THEN Refuse(<< >>)
       ELSE IF ~cli.directory.given
       THEN Refuse(<< "Error: Please specify a directory using -dir or --directory" >>)
       ELSE IF ~path_exists(resolve(cli.directory))
       THEN Refuse(<< "Error: Directory does not exist: ",
                      str_path(resolve(cli.directory)) >>)
       ELSE IF ~is_dir(resolve(cli.directory))
       THEN Refuse(<< "Error: Not a directory: ",
                      str_path(resolve(cli.directory)) >>)
       ELSE /\ Enter(p)
            /\ cli' = [cli EXCEPT !.pc = "merging", !.called = TRUE]
            /\ lib' = lib

\* merge_pdfs has returned to main, which returns (main.py 42).
MainReturn(p) ==
    /\ cli.pc = "merging"
    /\ m[p].pc \in {"done", "failed"}
    /\ cli' = [cli EXCEPT !.pc = IF m[p].pc = "done" THEN "returned" ELSE "raised"]
    /\ UNCHANGED <<dir, tmp, m, merges, produced, uq, lib>>

InitCli ==
    /\ dir \in InitDirs
    /\ tmp = << >>
    /\ \E name \in OutputNames : m = [p \in Procs |-> Idle(name, dir, tmp)]
    /\ merges = 0
    /\ produced = {}
    /\ uq = NoCall
    /\ \E flag \in BOOLEAN, d \in DirectoryArgs :
            cli = [NoRun EXCEPT !.merge_pdf = flag, !.directory = d]
    /\ lib = NoLib

NextCli ==
    \/ Main(1)
    \/ MainReturn(1)
    \/ ReadCount(1)
    \/ CalcPageNumbers(1)
    \/ CreateToc(1)
    \/ AddToc(1)
    \/ CreateTitle(1)
    \/ AddTitle(1)
    \/ AddContent(1)
    \/ UnlinkTitle(1)
    \/ Resolve(1)
    \/ OpenTemp(1)
    \/ WriteTemp(1)
    \/ ReadTotal(1)
    \/ AddPageNumbers(1)
    \/ OpenNumbered(1)
    \/ WriteNumbered(1)
    \/ UnlinkToc(1)
    \/ UnlinkTemp(1)

SpecCli == InitCli /\ [][NextCli]_vars

(***************************************************************************)
(* The rendering functions on their own: create_toc_page on a list of      *)
(* entries, wrap_text on a text and a width, create_title_page on a name   *)
(* (tests/test_pdf_merger.py 197-377, 691-818).                            *)
(***************************************************************************)
MaxEntries == 50    \* entries of the longest list of one-line entries
MaxWords == 13      \* words of the longest name
MaxName == 50       \* characters before the extension of the longest title
MaxLines == 34      \* wrapped lines of the tallest entry

\* n copies of the sequence w, sep between them.
repeat(w, sep, n) ==
    [k \in 1..(n * Len(w) + (n - 1) * Len(sep)) |->
        IF ((k - 1) % (Len(w) + Len(sep))) < Len(w)
        THEN w[((k - 1) % (Len(w) + Len(sep))) + 1]
        ELSE sep[((k - 1) % (Len(w) + Len(sep))) - Len(w) + 1]]

document == << "d", "o", "c", "u", "m", "e", "n", "t" >>

\* "document document ... document.pdf", n words.
WordsName(n) == repeat(document, << " " >>, n) \o pdf_ext

\* "mm...m.pdf", n letters.
WideName(n) == repeat(<< "m" >>, << >>, n) \o pdf_ext

\* n words of 20 letters m, each taking a line of its own, and ".pdf".
TallName(n) ==
    repeat(repeat(<< "m" >>, << >>, 20), << " " >>, n) \o pdf_ext

\* Three words that fill max_text_width to the thousandth of a point: their
\* glyph widths and the two spaces sum to 31500, and 31.5 * 12 = 378.
FullLine ==
    repeat(<< "c" >>, << >>, 8) \o << " " >> \o repeat(<< "m" >>, << >>, 22)
        \o << " " >> \o repeat(<< "f" >>, << >>, 31)

\* A name that is 80% of the page width wide at size 24, to the thousandth
\* of a point: its glyph widths sum to 20400, and 20.4 * 24 = 489.6.
FullTitle ==
    repeat(<< "a" >>, << >>, 3) \o repeat(<< "c" >>, << >>, 13)
        \o repeat(<< "t" >>, << >>, 38) \o pdf_ext

\* Names that are not plain: one with a double space, one with a leading
\* space, one with two dots, one without extension, one whose stem is a
\* space, one word too wide for a line, one wider than the page between its
\* margins, names that wrap, and the two names that fill a width exactly.
SpecialNames ==
    { << "a", " ", " ", "b" >> \o pdf_ext,
      FullLine \o pdf_ext,
      FullTitle,
      << " ", "a" >> \o pdf_ext,
      << "a", ".", "b" >> \o pdf_ext,
      << "r", "e", "a", "d", "m", "e" >>,
      << " " >> \o pdf_ext,
      WideName(40),
      WideName(MaxName),
      WordsName(7),
      WordsName(MaxWords) }

\* The lines of an entry that starts at the top of a page and leaves the
\* cursor below the bottom margin: one more than fit between the margins
\* below the first.
PageLines == ((height - top_margin - bottom_margin) \div line_height) + 1

\* The first n of the names "00.pdf", "01.pdf", ...
Numbered(n) == [k \in 1..n |-> numbered_pdf(k - 1)]

\* The entry lists create_toc_page is called with: with each list the page
\* numbers, strictly increasing.
TocInputs ==
    { [filenames |-> Numbered(n), page_numbers |-> [k \in 1..n |-> k]] :
        n \in 0..MaxEntries }
    \cup { [filenames |-> << s >>, page_numbers |-> << 4 >>] : s \in SpecialNames }
    \cup { [filenames |-> << s, t >>, page_numbers |-> << 9, 120 >>] :
            s \in SpecialNames, t \in SpecialNames }
    \cup { [filenames |-> Append(Numbered(n), WordsName(MaxWords)),
            page_numbers |-> [k \in 1..(n + 1) |-> 3 * k + 1]] : n \in 26..30 }
    \cup { [filenames |-> Append(Numbered(n), TallName(MaxLines)),
            page_numbers |-> [k \in 1..(n + 1) |-> 3 * k + 1]] : n \in {0, 3} }
    \cup { [filenames |-> << TallName(PageLines), s >>,
            page_numbers |-> << 4, 5 >>] :
            s \in { << " " >> \o pdf_ext, a_pdf } }

\* The texts and widths wrap_text is called with.
WrapWords == { << "a" >>, << "m", "m" >>, << "a", "b", "c" >> }

WrapTexts ==
    { << >>, << " " >>, << " ", " " >> }
    \cup { u : u \in WrapWords }
    \cup { u \o << " " >> \o v : u \in WrapWords, v \in WrapWords }
    \cup { << " " >> \o u \o << " ", " " >> \o v \o << " " >> :
            u \in WrapWords, v \in WrapWords }
    \cup { u \o << " " >> \o v \o << " " >> \o w :
            u \in WrapWords, v \in WrapWords, w \in WrapWords }
    \cup { format_display_name(WordsName(n)) : n \in {7, MaxWords} }
    \cup { FullLine }

WrapWidths == { 0, 6, 7, 10, 17, 20, 24, 30, 34, 45, 60, max_text_width }

InitLib ==
    /\ dir = << >>
    /\ tmp = << >>
    /\ m = [p \in Procs |-> Idle(out_pdf, dir, tmp)]
    /\ merges = 0
    /\ produced = {}
    /\ uq = NoCall
    /\ cli = NoRun
    /\ \/ \E in \in TocInputs :
            lib = [NoLib EXCEPT !.fn = "create_toc_page",
                                !.filenames = in.filenames,
                                !.page_numbers = in.page_numbers]
       \/ \E text \in WrapTexts, max_width \in WrapWidths :
            lib = [NoLib EXCEPT !.fn = "wrap_text", !.text = text,
                                !.max_width = max_width]
       \/ \E n \in 0..MaxName :
            lib = [NoLib EXCEPT !.fn = "create_title_page",
                                !.text = WideName(n)]
       \/ \E s \in SpecialNames :
            lib = [NoLib EXCEPT !.fn = "create_title_page", !.text = s]

\* The call of create_toc_page as recorded: what it drew, and temp_path,
\* the name of the temp file it made (pdf.py 26-28).
tocCalled(l, layout, temp_path) ==
    [l EXCEPT !.called = TRUE, !.layout = layout, !.path = temp_path]

\* The temp file of create_toc_page: the document can.save() writes
\* (pdf.py 139), and the empty file NamedTemporaryFile made when the call
\* raised before it.
tocFile(layout, doc) == IF layout.error THEN Unreadable ELSE doc

\* create_toc_page(filenames, page_numbers): the temp file is made and kept
\* (delete=False).
CallToc ==
    /\ lib.fn = "create_toc_page" /\ ~lib.called
    /\ lib' = tocCalled(lib, toc_layout(lib.filenames, lib.page_numbers),
                        mktemp(tmp))
    /\ tmp' = write(tmp, mktemp(tmp),
                    tocFile(toc_layout(lib.filenames, lib.page_numbers),
                            toc_doc(lib.filenames, lib.page_numbers)))
    /\ UNCHANGED <<dir, m, merges, produced, uq, cli>>

\* wrap_text(text, max_width)
CallWrap ==
    /\ lib.fn = "wrap_text" /\ ~lib.called
    /\ lib' = [lib EXCEPT !.called = TRUE,
                          !.lines = wrap_text(lib.text, lib.max_width)]
    /\ UNCHANGED <<dir, tmp, m, merges, produced, uq, cli>>

\* create_title_page(filename): the temp file is made (pdf.py 146-148),
\* written (pdf.py 178) and kept; its name is returned.
CallTitle ==
    /\ lib.fn = "create_title_page" /\ ~lib.called
    /\ lib' = [lib EXCEPT !.called = TRUE,
                          !.font = title_font(lib.text),
                          !.path = mktemp(tmp)]
    /\ tmp' = write(tmp, mktemp(tmp), title_doc(lib.text))
    /\ UNCHANGED <<dir, m, merges, produced, uq, cli>>

NextLib == CallToc \/ CallWrap \/ CallTitle

SpecLib == InitLib /\ [][NextLib]_vars

(***************************************************************************)
(* Merges that may meet I/O errors, asked for out.pdf in a directory of    *)
(* one or two sources, with or without an earlier out.pdf.                 *)
(***************************************************************************)
InitFaults ==
    /\ dir \in { [x \in S |-> SourceDoc(x, c)] :
                    S \in { T \in SUBSET {a_pdf, b_pdf, out_pdf} : a_pdf \in T },
                    c \in 0..MaxPages }
    /\ tmp = << >>
    /\ m = [p \in Procs |-> Idle(out_pdf, dir, tmp)]
    /\ merges = 0
    /\ produced = {}
    /\ uq = NoCall
    /\ cli = NoRun
    /\ lib = NoLib

SpecFaults == InitFaults /\ [][Next]_vars

(***************************************************************************)
(* Merges in a directory that already holds files with the names of the    *)
(* intermediate file, out.pdf.temp and out_1.pdf.temp.                     *)
(***************************************************************************)
out_pdf_temp == out_pdf \o temp_ext
out_1_pdf_temp == out_1_pdf \o temp_ext

InitLeftover ==
    /\ dir \in { [x \in S |-> SourceDoc(x, c)] :
                    S \in { T \in SUBSET {a_pdf, b_pdf, out_pdf, out_pdf_temp,
                                          out_1_pdf_temp} :
                                /\ a_pdf \in T
                                /\ T \cap {out_pdf_temp, out_1_pdf_temp} # {} },
                    c \in 0..MaxPages }
    /\ tmp = << >>
    /\ m = [p \in Procs |-> Idle(out_pdf, dir, tmp)]
    /\ merges = 0
    /\ produced = {}
    /\ uq = NoCall
    /\ cli = NoRun
    /\ lib = NoLib

SpecLeftover == InitLeftover /\ [][NextFaultFree]_vars

(***************************************************************************)
(* Two invocations of merge_pdfs on the same directory, asked for the same *)
(* output name, their steps interleaved.                                   *)
(***************************************************************************)
InitTwo ==
    /\ dir \in { [x \in S |-> SourceDoc(x, 1)] :
                    S \in { T \in SUBSET {a_pdf, b_pdf, out_pdf} : a_pdf \in T } }
    /\ tmp = << >>
    /\ m = [p \in Procs |-> Idle(out_pdf, dir, tmp)]
    /\ merges = 0
    /\ produced = {}
    /\ uq = NoCall
    /\ cli = NoRun
    /\ lib = NoLib

\* Each of the two invocations is made once.
NextTwo ==
    \E p \in Procs :
        \/ m[p].pc = "idle" /\ Start(p)
        \/ ReadCount(p)
        \/ CalcPageNumbers(p)
        \/ CreateToc(p)
        \/ AddToc(p)
        \/ CreateTitle(p)
        \/ AddTitle(p)
        \/ AddContent(p)
        \/ UnlinkTitle(p)
        \/ Resolve(p)
        \/ OpenTemp(p)
        \/ WriteTemp(p)
        \/ ReadTotal(p)
        \/ AddPageNumbers(p)
        \/ OpenNumbered(p)
        \/ WriteNumbered(p)
        \/ UnlinkToc(p)
        \/ UnlinkTemp(p)

SpecTwo == InitTwo /\ [][NextTwo]_vars

(***************************************************************************)
(* Properties.                                                             *)
(***************************************************************************)
Started(p) == m[p].pc # "idle"

\* The temp file a rendering function called on its own has made.
LibDoc == tmp[lib.path]

\* The final document of invocation p has been written by add_page_numbers.
Written(p) ==
    \/ m[p].pc \in {"cleanup_toc", "cleanup_temp"}
    \/ m[p].pc = "done" /\ m[p].result # None

FinalDoc(p) == dir[m[p].output_path]

\* The files of directory d a merge asked for output name requested takes.
Eligible(d, requested) ==
    { f \in DOMAIN d : /\ endswith(f, pdf_ext)
                       /\ f # requested
                       /\ ~startswith(f, merged_prefix) }

\* The page count of the i-th source document of invocation p.
SourceCount(p, i) == Len(m[p].pre[m[p].pdf_files[i]].pages)

\* Title and content pages of the source documents lo..hi of p.
RECURSIVE PagesOf(_, _, _)
PagesOf(p, lo, hi) ==
    IF lo > hi THEN 0
    ELSE IF lo = hi THEN 1 + SourceCount(p, lo)
    ELSE PagesOf(p, lo, (lo + hi) \div 2)
         + PagesOf(p, ((lo + hi) \div 2) + 1, hi)

\* Title and content pages of the first i source documents of p.
PagesUpTo(p, i) == PagesOf(p, 1, i)

\* A page as it was before the last footer was overlaid.
Unfooted(pg) == [pg EXCEPT !.foot = SubSeq(@, 1, Len(@) - 1)]

\* A page made by the merge that wrote the document: it has one footer.
Own(pg) == Len(pg.foot) = 1

\* The number of TOC pages of the merge that wrote doc.
TocCount(doc) ==
    Cardinality({ k \in 1..Len(doc.pages) :
                    doc.pages[k].kind = "toc" /\ Own(doc.pages[k]) })

\* The TOC entries of the merge that wrote doc.
TocEntriesOf(doc) ==
    UNION { { doc.pages[k].body[j] : j \in 1..Len(doc.pages[k].body) } :
            k \in { x \in 1..Len(doc.pages) :
                        doc.pages[x].kind = "toc" /\ Own(doc.pages[x]) } }

\* The 1-indexed position in doc of the title page made for file f.
TitlePosition(doc, f) ==
    CHOOSE k \in 1..Len(doc.pages) :
        /\ doc.pages[k].kind = "title"
        /\ doc.pages[k].name = f
        /\ Own(doc.pages[k])

\* C1: the start pages computed for the TOC: one per source document, in
\* the order of the documents, the first 4, each next one the previous plus
\* the previous document's page count plus 1.
C1_StartPages ==
    \A p \in Procs :
        m[p].page_numbers # << >> =>
            /\ Len(m[p].page_numbers) = Len(m[p].pdf_files)
            /\ m[p].page_numbers[1] = 4
            /\ \A i \in 2..Len(m[p].page_numbers) :
                    m[p].page_numbers[i] =
                        m[p].page_numbers[i - 1] + SourceCount(p, i - 1) + 1

C1_Witness ==
    \E p \in Procs :
        /\ Len(m[p].page_numbers) >= 3
        /\ SourceCount(p, 1) = 2
        /\ SourceCount(p, 2) = 0

\* C2: the page number the TOC prints for each document is the 1-indexed
\* position of that document's title page in the final document, which is
\* the number its footer shows.
C2_TocNumberIsTitlePosition ==
    \A p \in Procs :
        Written(p) =>
            \A i \in 1..Len(m[p].pdf_files) :
                LET pos == TitlePosition(FinalDoc(p), m[p].pdf_files[i])
                IN  /\ \E e \in TocEntriesOf(FinalDoc(p)) : e.entry = i
                    /\ \A e \in TocEntriesOf(FinalDoc(p)) :
                            e.entry = i => e.num = pos
                    /\ FinalDoc(p).pages[pos].foot[1].i = pos

\* C3: the final document is the TOC pages, then for each eligible file in
\* ascending name order its title page and its content pages in order; its
\* length is P + N + the sum of the page counts.
C3_FinalDocumentLayout ==
    \A p \in Procs :
        Written(p) =>
            LET D == FinalDoc(p)
                files == m[p].pdf_files
                N == Len(files)
                P == TocCount(D)
                first(i) == P + PagesUpTo(p, i - 1) + 1
            IN  /\ P >= 1
                /\ \A k \in 1..P : D.pages[k].kind = "toc" /\ D.pages[k].idx = k
                /\ { files[i] : i \in 1..N } = Eligible(m[p].pre, m[p].requested)
                /\ \A i \in 1..N : \A j \in (i + 1)..N : StrLess(files[i], files[j])
                /\ \A i \in 1..N :
                    /\ D.pages[first(i)].kind = "title"
                    /\ D.pages[first(i)].name = files[i]
                    /\ \A k \in 1..SourceCount(p, i) :
                        Unfooted(D.pages[first(i) + k]) = m[p].pre[files[i]].pages[k]
                /\ Len(D.pages) = P + N + (PagesUpTo(p, N) - N)
                /\ (\A i \in 1..N : SourceCount(p, i) = 1) => Len(D.pages) = P + 2 * N

C3_Witness ==
    \E p \in Procs :
        /\ Written(p)
        /\ TocCount(FinalDoc(p)) = 2
        /\ Len(m[p].pdf_files) = TwoPageToc
        /\ SourceCount(p, 3) = 2
        /\ FinalDoc(p).pages[3].kind = "title"

C5_Footers ==
    \A p \in Procs :
        Written(p) =>
            LET D == FinalDoc(p)
                T == Len(D.pages)
            IN  /\ T = Len(m[p].writer.pages)
                /\ T = m[p].total_pages
                /\ \A k \in 1..T :
                    /\ D.pages[k].foot # << >>
                    /\ D.pages[k].foot[Len(D.pages[k].foot)] = footer(k, T)
                    /\ Unfooted(D.pages[k]) = m[p].writer.pages[k]

C5_Witness ==
    \E p \in Procs :
        /\ Written(p)
        /\ Len(FinalDoc(p).pages) >= 6
        /\ \E k \in 1..Len(FinalDoc(p).pages) : Len(FinalDoc(p).pages[k].foot) = 2

\* C6 as stated: with no eligible PDF file in the directory, merge returns
\* None and no file of the directory or the temp area is created, changed
\* or deleted.
C6_NoInputNoWrite ==
    \A p \in Procs :
        (Started(p) /\ Eligible(m[p].pre, m[p].requested) = {}) =>
            /\ m[p].pc = "done"
            /\ m[p].result = None
            /\ dir = m[p].pre
            /\ tmp = m[p].pretmp

\* C6, amended: with no eligible PDF file in the directory, merge returns
\* None unless listing the directory raises, and then the error leaves
\* merge; either way no file of the directory or the temp area is created,
\* changed or deleted.
C6_NoInputNoWriteOrListingError ==
    \A p \in Procs :
        (Started(p) /\ Eligible(m[p].pre, m[p].requested) = {}) =>
            /\ \/ m[p].pc = "done" /\ m[p].result = None
               \/ m[p].pc = "failed" /\ m[p].output_path = << >>
            /\ dir = m[p].pre
            /\ tmp = m[p].pretmp

C6_Witness ==
    \E p \in Procs :
        /\ m[p].pc = "done"
        /\ m[p].result = None
        /\ {n_txt, out_pdf} \subseteq DOMAIN dir
        /\ m[p].requested = out_pdf
        /\ Eligible(m[p].pre, m[p].requested) = {}

\* The requested name and its suffixed variants that exist in d.
OutputFamily(d, requested) ==
    { f \in DOMAIN d :
        \/ f = requested
        \/ \E k \in 1..Cardinality(DOMAIN d) : f = suffixed(requested, k) }

out_2_pdf == << "o", "u", "t", "_", "2" >> \o pdf_ext

\* C7: when the requested output name exists, merge writes to the suffixed
\* name that is free, never to an existing file, and leaves the existing
\* output files untouched; with out.pdf and out_1.pdf present the result
\* is out_2.pdf.
C7_CollisionResolved ==
    \A p \in Procs :
        (Started(p) /\ m[p].requested \in DOMAIN m[p].pre) =>
            /\ \A f \in OutputFamily(m[p].pre, m[p].requested) :
                    f \in DOMAIN dir /\ dir[f] = m[p].pre[f]
            /\ m[p].output_path # << >> =>
                /\ m[p].output_path \notin DOMAIN m[p].pre
                /\ \E k \in 1..Cardinality(DOMAIN m[p].pre) :
                        m[p].output_path = suffixed(m[p].requested, k)
                /\ (/\ m[p].requested = out_pdf
                    /\ out_1_pdf \in DOMAIN m[p].pre
                    /\ out_2_pdf \notin DOMAIN m[p].pre)
                        => m[p].output_path = out_2_pdf
            /\ (m[p].pc = "done" /\ m[p].result # None) =>
                /\ m[p].result = m[p].output_path
                /\ m[p].result \in DOMAIN dir
                /\ dir[m[p].result].valid

C7_Witness ==
    \E p \in Procs :
        /\ m[p].pc = "done"
        /\ m[p].requested = out_pdf
        /\ {out_pdf, out_1_pdf} \subseteq DOMAIN m[p].pre
        /\ m[p].result = out_2_pdf
        /\ dir[out_2_pdf].valid
        /\ dir[out_pdf] = m[p].pre[out_pdf]

out_10_pdf == << "o", "u", "t", "_", "1", "0" >> \o pdf_ext

\* C8: get_unique_filename returns base_name when no file has that name,
\* else base + "_" + k + ext for the least k >= 1 that no file has; the
\* name it returns is not in the directory.
C8_UniqueFilename ==
    uq.called =>
        /\ uq.result \notin uq.directory
        /\ uq.base_name \notin uq.directory => uq.result = uq.base_name
        /\ uq.base_name \in uq.directory =>
            \E k \in 1..Cardinality(uq.directory) :
                /\ uq.result = suffixed(uq.base_name, k)
                /\ \A j \in 1..(k - 1) : suffixed(uq.base_name, j) \in uq.directory
        /\ (uq.base_name = test_name /\ uq.directory = {test_name})
                => uq.result = << "t", "e", "s", "t", "_", "1" >>
        /\ (uq.base_name = out_pdf /\ uq.directory = {out_pdf, out_1_pdf})
                => uq.result = out_2_pdf

C8_Witness ==
    /\ uq.called
    /\ uq.base_name = out_pdf
    /\ uq.result = out_10_pdf
    /\ Cardinality(uq.directory) >= 10

\* C9: no result of an earlier merge with the same requested output name is
\* among the inputs of a later merge.
C9_NoEarlierResultIsInput ==
    \A p \in Procs :
        \A i \in 1..Len(m[p].pdf_files) : m[p].pdf_files[i] \notin produced

\* C10: in every execution, aborted ones included, the final path does not
\* exist or holds the complete numbered document.
C10_FinalPathAbsentOrComplete ==
    \A p \in Procs :
        (Started(p) /\ m[p].output_path # << >>
                    /\ m[p].output_path \in DOMAIN dir) =>
            LET D == dir[m[p].output_path]
            IN  /\ D.valid
                /\ \A k \in 1..Len(D.pages) :
                    /\ D.pages[k].foot # << >>
                    /\ D.pages[k].foot[Len(D.pages[k].foot)] = footer(k, Len(D.pages))

C12_OutputHasPdfExtension ==
    \A p \in Procs :
        (m[p].pc = "done" /\ m[p].result # None
                          /\ ~endswith(m[p].requested, pdf_ext)) =>
            /\ m[p].result = m[p].requested \o pdf_ext
            /\ exists(dir, m[p].requested \o pdf_ext)

\* C13: run with the merge flag and a directory argument that is missing,
\* names no existing path, or names a file, main prints an error message and
\* returns without raising, without calling merge_pdfs and without touching
\* any file; run without the merge flag it does nothing.
C13_CliUserError ==
    (/\ cli.pc # "idle"
     /\ \/ ~cli.merge_pdf
        \/ ~cli.directory.given
        \/ ~is_dir(resolve(cli.directory))) =>
        /\ cli.pc = "returned"
        /\ ~cli.called
        /\ \A p \in Procs : m[p].pc = "idle" /\ dir = m[p].pre /\ tmp = m[p].pretmp
        /\ merges = 0
        /\ cli.merge_pdf <=> cli.printed # << >>
        /\ (cli.merge_pdf /\ ~cli.directory.given)
                => cli.printed = << "Error: Please specify a directory using -dir or --directory" >>
        /\ (cli.merge_pdf /\ cli.directory = RelPath(<< "nowhere" >>))
                => cli.printed = << "Error: Directory does not exist: ",
                                    "/work/nowhere" >>
        /\ (cli.merge_pdf /\ cli.directory = RelPath(<< ".", "notes.txt" >>))
                => cli.printed = << "Error: Not a directory: ",
                                    "/work/notes.txt" >>

\* Run as --merge-pdf -dir ./notes.txt in /work: the message names the
\* resolved path.
C13_Witness ==
    /\ cli.pc = "returned"
    /\ cli.merge_pdf
    /\ cli.directory = RelPath(<< ".", "notes.txt" >>)
    /\ cli.printed = << "Error: Not a directory: ", "/work/notes.txt" >>
    /\ a_pdf \in DOMAIN dir

\* The text lines drawn for entry i, in the order drawn.
LinesOf(draws, i) ==
    LET I == { k \in 1..Len(draws) :
                 draws[k].entry = i /\ draws[k].kind \in {"first", "cont"} }
    IN  [j \in 1..Cardinality(I) |-> draws[nth(I, j)].text]

\* The draws of one kind made for entry i.
DrawsOf(draws, kind, i) ==
    { k \in 1..Len(draws) : draws[k].entry = i /\ draws[k].kind = kind }

\* The rendered TOC has every entry once, in input order, showing the
\* words of the name without its final extension and the start page given.
TocShowsEntries(filenames, page_numbers, layout) ==
    LET draws == layout.draws
    IN  /\ ~layout.error
        /\ Cardinality({ k \in 1..Len(draws) : draws[k].kind = "first" })
                = Len(filenames)
        /\ \A i \in 1..Len(filenames) :
            /\ Cardinality(DrawsOf(draws, "first", i)) = 1
            /\ Cardinality(DrawsOf(draws, "num", i)) = 1
            /\ \A k \in DrawsOf(draws, "num", i) :
                    draws[k].n = page_numbers[i] /\ draws[k].text = str(page_numbers[i])
            /\ join(LinesOf(draws, i)) = join(split(format_display_name(filenames[i])))
            /\ \A j \in 1..(i - 1) :
                    \A k \in DrawsOf(draws, "first", i), l \in DrawsOf(draws, "first", j) :
                        l < k

\* C14: the TOC rendered from a list of (filename, start page) pairs has
\* every entry exactly once, in input order, showing the name without its
\* final extension and the start page given for it; as many entries are
\* drawn as there are documents.
C14_TocEntries ==
    (lib.called /\ lib.fn = "create_toc_page") =>
        TocShowsEntries(lib.filenames, lib.page_numbers, lib.layout)

\* C15: create_toc_page called with an empty entry list produces a document
\* of exactly one page, and the only thing drawn on it is the title
\* "Table of Contents".
C15_EmptyTocIsTitleOnly ==
    (lib.called /\ lib.fn = "create_toc_page" /\ lib.filenames = << >>) =>
        /\ ~lib.layout.error
        /\ LibDoc.valid
        /\ Len(LibDoc.pages) = 1
        /\ LibDoc.pages[1].kind = "toc"
        /\ LibDoc.pages[1].body = << >>
        /\ lib.layout.page = 1
        /\ lib.layout.draws
               = << Draw(1, height - top_margin, "title", TocTitle, 0, 0) >>

C15_Witness ==
    /\ lib.called /\ lib.fn = "create_toc_page"
    /\ lib.filenames = << >> /\ lib.page_numbers = << >>
    /\ Len(lib.layout.draws) = 1
    /\ LibDoc.valid

\* The text lines that fit on the first TOC page, below the title.
FirstPageLines ==
    (draw_title(height - top_margin) - line_height - bottom_margin)
        \div line_height

\* The draws of a layout that put text on page p.
TextDraws(draws, p) ==
    { k \in 1..Len(draws) :
        draws[k].page = p /\ draws[k].kind \in {"title", "first", "cont"} }

\* C16: when the entries' lines do not fit on one page the TOC has more
\* than one page (50 one-line entries do not fit); the title is drawn once,
\* on page 1; and every page of the TOC has at least one drawn text line.
\* (A call that an entry without a line aborts saves no page; the page it
\* had just started is the only one that can be without text.)
C16_TocPagination ==
    (lib.called /\ lib.fn = "create_toc_page") =>
        LET draws == lib.layout.draws
            text_lines == { k \in 1..Len(draws) :
                              draws[k].kind \in {"first", "cont"} }
        IN  /\ \A p \in 1..lib.layout.page :
                   \/ TextDraws(draws, p) # {}
                   \/ lib.layout.error /\ ~LibDoc.valid /\ p = lib.layout.page
            /\ \A k \in 1..Len(draws) : draws[k].page \in 1..lib.layout.page
            /\ \A k \in 1..Len(draws) :
                   draws[k].kind = "title" <=> k = 1
            /\ draws[1].page = 1 /\ draws[1].text = TocTitle
            /\ ~lib.layout.error =>
                /\ LibDoc.valid /\ Len(LibDoc.pages) = lib.layout.page
                /\ Cardinality(text_lines) > FirstPageLines => lib.layout.page > 1
                /\ Len(lib.filenames) = 50 => lib.layout.page > 1

C16_Witness ==
    /\ lib.called /\ lib.fn = "create_toc_page" /\ ~lib.layout.error
    /\ Len(lib.filenames) = 50
    /\ lib.layout.page = 2
    /\ Len(LibDoc.pages) = 2
    /\ \E k \in 1..Len(lib.layout.draws) :
           lib.layout.draws[k].page = 2 /\ lib.layout.draws[k].entry = 30

\* The words of some lines, line after line.
RECURSIVE WordsOf(_)
WordsOf(lines) ==
    IF lines = << >> THEN << >> ELSE split(Head(lines)) \o WordsOf(Tail(lines))

\* C17: the lines wrap_text returns, joined by single spaces, are the
\* whitespace-normalized text: the words of the text, each once and whole,
\* in their order; no line is empty; and a text of more than one word whose
\* normalized form is wider than max_width gives more than one line.
C17_WrapKeepsWords ==
    (lib.called /\ lib.fn = "wrap_text") =>
        LET normalized == join(split(lib.text))
        IN  /\ join(lib.lines) = normalized
            /\ WordsOf(lib.lines) = split(lib.text)
            /\ \A i \in 1..Len(lib.lines) :
                /\ lib.lines[i] # << >>
                /\ lib.lines[i] = join(split(lib.lines[i]))
            /\ (/\ Len(split(lib.text)) > 1
                /\ text_font_size * glyphSum(normalized)
                       > lib.max_width * 1000)
               => Len(lib.lines) > 1

C17_Witness ==
    /\ lib.called /\ lib.fn = "wrap_text"
    /\ Len(split(lib.text)) = 2
    /\ lib.text # join(split(lib.text))
    /\ text_font_size * glyphSum(join(split(lib.text)))
           > lib.max_width * 1000
    /\ Len(lib.lines) = 2

\* The width of a line or word of the TOC in thousandths of a point: the
\* sum of its glyph widths at the text font size, with no rounding.
Measured(text) == text_font_size * glyphSum(text)

\* C19: wrap_text wraps greedily: a line of two or more words is no wider
\* than max_width, a word wider than max_width is alone on its line, and a
\* line ends only where the next word, with the space before it, would not
\* have fitted.
C19_WrapIsGreedy ==
    (lib.called /\ lib.fn = "wrap_text") =>
        LET limit == lib.max_width * 1000
            space == Measured(<< " " >>)
        IN  /\ \A i \in 1..Len(lib.lines) :
                LET words == split(lib.lines[i])
                IN  /\ Len(words) >= 2 => Measured(lib.lines[i]) <= limit
                    /\ \A j \in 1..Len(words) :
                           Measured(words[j]) > limit => Len(words) = 1
            /\ \A i \in 1..(Len(lib.lines) - 1) :
                   Measured(lib.lines[i]) + space
                       + Measured(split(lib.lines[i + 1])[1]) > limit

\* The file name drawn at a font size is no wider than 80% of the page
\* width (widths in thousandths of a point, both sides times 10).
FitsTitle(filename, font_size) ==
    font_size * glyphSum(filename) * 10 <= width * 8 * 1000

\* C20: create_title_page starts at size 24 and goes down by 1 while the
\* file name is wider than 80% of the page width and the size is above 12:
\* at most 12 steps, a final size in 12..24 that is the largest size of
\* 12..24 at which the name fits, or 12 when it fits at none; the document
\* has one page, with the whole file name on it.
C20_TitleFontSize ==
    (lib.called /\ lib.fn = "create_title_page") =>
        LET fits == { s \in 12..24 : FitsTitle(lib.text, s) }
        IN  /\ lib.font \in 12..24
            /\ title_font_size - lib.font <= 12
            /\ fits # {} => lib.font \in fits /\ \A s \in fits : s <= lib.font
            /\ fits = {} => lib.font = 12
            /\ \A s \in (lib.font + 1)..title_font_size : ~FitsTitle(lib.text, s)
            /\ LibDoc.valid
            /\ Len(LibDoc.pages) = 1
            /\ LibDoc.pages[1].kind = "title"
            /\ Len(LibDoc.pages[1].body) = 1
            /\ LibDoc.pages[1].body[1].text = lib.text
            /\ LibDoc.pages[1].body[1].num = lib.font

C20_Witness ==
    /\ lib.called /\ lib.fn = "create_title_page"
    /\ lib.font \in 13..23
    /\ ~FitsTitle(lib.text, lib.font + 1)
    /\ FitsTitle(lib.text, lib.font)
    /\ LibDoc.pages[1].body[1].text = lib.text

\* A name too wide at every size is drawn at size 12.
C20_WitnessFloor ==
    /\ lib.called /\ lib.fn = "create_title_page"
    /\ lib.font = 12
    /\ ~FitsTitle(lib.text, 12)

\* The invocation holds a TOC temp file, a title-page temp file, or the
\* pre-numbering temp file: it has written it and not yet deleted it.
HasToc(p) ==
    m[p].pc \in {"addtoc", "title", "addtitle", "content", "unlink", "resolve",
                 "writetemp", "writing", "readtotal", "number", "opening",
                 "numbering", "cleanup_toc"}

HasTitle(p) == m[p].pc \in {"addtitle", "content", "unlink"}

HasTemp(p) ==
    m[p].pc \in {"writing", "readtotal", "number", "opening", "numbering",
                 "cleanup_toc", "cleanup_temp"}

\* C18: temp files have names unique to the invocation: of two interleaved
\* merges on the same directory with the same requested output name, no
\* temp path (TOC, title page, pre-numbering) one of them has written is
\* written or deleted by the other.
C18_TempPathsNotShared ==
    \A p \in Procs, q \in Procs :
        p # q =>
            /\ (HasToc(p) /\ HasToc(q)) => m[p].toc_path # m[q].toc_path
            /\ (HasTitle(p) /\ HasTitle(q)) => m[p].title_path # m[q].title_path
            /\ (HasToc(p) /\ HasTitle(q)) => m[p].toc_path # m[q].title_path
            /\ (HasTemp(p) /\ HasTemp(q)) => m[p].temp_output # m[q].temp_output

\* The part of C18 that is about the files of create_toc_page and
\* create_title_page.
RenderedTempsNotShared ==
    \A p \in Procs, q \in Procs :
        p # q =>
            /\ (HasToc(p) /\ HasToc(q)) => m[p].toc_path # m[q].toc_path
            /\ (HasTitle(p) /\ HasTitle(q)) => m[p].title_path # m[q].title_path
            /\ (HasToc(p) /\ HasTitle(q)) => m[p].toc_path # m[q].title_path

\* The draws that put a line of an entry on a row, in the order drawn.
TextLines(draws) ==
    { k \in 1..Len(draws) : draws[k].kind \in {"first", "cont"} }

\* C21: for every entry drawn, the dot leader and the page number are drawn
\* once, on the row of the entry's first line; every further line of the
\* entry is drawn indented, on a following row (at the top of a new page
\* when the cursor had passed the bottom margin), on a row that has neither
\* dots nor a number; each drawn line moves the cursor down one line height.
C21_TocRows ==
    (lib.called /\ lib.fn = "create_toc_page") =>
        LET draws == lib.layout.draws
            lines == TextLines(draws)
        IN  /\ \A i \in { draws[k].entry : k \in lines } :
                /\ Cardinality(DrawsOf(draws, "first", i)) = 1
                /\ Cardinality(DrawsOf(draws, "dots", i)) = 1
                /\ Cardinality(DrawsOf(draws, "num", i)) = 1
                /\ \A f \in DrawsOf(draws, "first", i),
                      d \in DrawsOf(draws, "dots", i) \cup DrawsOf(draws, "num", i) :
                       /\ draws[d].page = draws[f].page /\ draws[d].y = draws[f].y
                       /\ draws[f].n = margin_left
                       /\ \A c \in DrawsOf(draws, "cont", i) : f < c
                /\ \A c \in DrawsOf(draws, "cont", i) :
                       draws[c].n = margin_left + indent
            /\ \A c \in 1..Len(draws), d \in 1..Len(draws) :
                   (draws[c].kind = "cont" /\ draws[d].kind \in {"dots", "num"})
                       => <<draws[c].page, draws[c].y>> # <<draws[d].page, draws[d].y>>
            /\ \A j \in 2..Cardinality(lines) :
                   LET a == draws[nth(lines, j - 1)]
                       b == draws[nth(lines, j)]
                   IN  \/ b.page = a.page /\ b.y = a.y - line_height
                       \/ /\ b.page = a.page + 1 /\ b.y = height - top_margin
                          /\ b.kind = "cont" => a.y - line_height < bottom_margin
            /\ ~lib.layout.error =>
                   lib.layout.y = draws[nth(lines \cup {1}, Cardinality(lines \cup {1}))].y
                                  - (IF lines = {} THEN title_font_size + 2 * line_height
                                     ELSE line_height)

C21_Witness ==
    /\ lib.called /\ lib.fn = "create_toc_page" /\ ~lib.layout.error
    /\ \E k \in 2..Len(lib.layout.draws) :
           /\ lib.layout.draws[k].kind = "cont"
           /\ lib.layout.draws[k].page = lib.layout.draws[k - 1].page + 1
           /\ lib.layout.draws[k - 1].kind = "cont"

\* The number the TOC of doc prints for entry i.
TocNumber(doc, i) == (CHOOSE e \in TocEntriesOf(doc) : e.entry = i).num

\* C22: in the final document of every merge, with P the number of its TOC
\* pages, the number the TOC prints for a document minus the 1-indexed
\* position of that document's title page is 3 - P, the same for every
\* document; so the numbers are the positions exactly when P = 3.
C22_TocNumberOffBy3MinusP ==
    \A p \in Procs :
        Written(p) =>
            LET doc == FinalDoc(p)
                P == TocCount(doc)
                files == m[p].pdf_files
            IN  /\ P >= 1
                /\ \A i \in 1..Len(files) :
                    /\ Cardinality({ e \in TocEntriesOf(doc) : e.entry = i }) = 1
                    /\ TocNumber(doc, i) - TitlePosition(doc, files[i]) = 3 - P
                /\ (\A i \in 1..Len(files) :
                        TocNumber(doc, i) = TitlePosition(doc, files[i]))
                   <=> P = 3

C22_Witness ==
    \E p \in Procs :
        /\ Written(p)
        /\ TocCount(FinalDoc(p)) = 2
        /\ Len(m[p].pdf_files) >= TwoPageToc
        /\ TocNumber(FinalDoc(p), 2) = TitlePosition(FinalDoc(p), m[p].pdf_files[2]) + 1

\* A merge whose TOC takes 3 pages prints the positions of the title pages.
C22_WitnessThree ==
    \E p \in Procs :
        /\ Written(p)
        /\ TocCount(FinalDoc(p)) = 3
        /\ TocNumber(FinalDoc(p), 2) = TitlePosition(FinalDoc(p), m[p].pdf_files[2])

\* The 1-indexed position in the final document of p of the first content
\* page of its i-th source document: the page after the title page, which
\* is the first page of the source file.
FirstContentPosition(p, i) ==
    CHOOSE k \in 2..Len(FinalDoc(p).pages) :
        /\ k - 1 = TitlePosition(FinalDoc(p), m[p].pdf_files[i])
        /\ Unfooted(FinalDoc(p).pages[k]) = m[p].pre[m[p].pdf_files[i]].pages[1]

\* C23: for every document, the start page computed for the TOC is the
\* 1-indexed position in the final document of the first content page of
\* that document.
C23_StartPageIsFirstContentPage ==
    \A p \in Procs :
        Written(p) =>
            \A i \in 1..Len(m[p].pdf_files) :
                SourceCount(p, i) >= 1 =>
                    /\ Len(m[p].page_numbers) = Len(m[p].pdf_files)
                    /\ m[p].page_numbers[i] = FirstContentPosition(p, i)

\* C23, as the code has it: the start page computed for a document is the
\* position of its first content page plus 2 - P, with P the number of TOC
\* pages (one less than the position assumed for the title page after a
\* TOC of three pages plus one); the two are equal exactly when P = 2.
C23_StartPageVsFirstContentPage ==
    \A p \in Procs :
        Written(p) =>
            \A i \in 1..Len(m[p].pdf_files) :
                SourceCount(p, i) >= 1 =>
                    /\ Len(m[p].page_numbers) = Len(m[p].pdf_files)
                    /\ m[p].page_numbers[i] - FirstContentPosition(p, i)
                           = 2 - TocCount(FinalDoc(p))
                    /\ m[p].page_numbers[i] = FirstContentPosition(p, i)
                           <=> TocCount(FinalDoc(p)) = 2

C23_Witness ==
    \E p \in Procs :
        /\ Written(p)
        /\ TocCount(FinalDoc(p)) = 1
        /\ Len(m[p].pdf_files) = 2
        /\ SourceCount(p, 1) = 2 /\ SourceCount(p, 2) = 1
        /\ m[p].page_numbers = << 4, 7 >>
        /\ FirstContentPosition(p, 1) = 3
        /\ FirstContentPosition(p, 2) = 6

\* The x position where the page-number column starts, thousandths of a
\* point.
NumberColumn == (width - margin_right - page_number_width) * 1000

\* C24: the dots of an entry run from the end of its first line towards the
\* page-number column, 4 points apart: their count is
\* floor((width - margin_left - margin_right - text_width - 40) / 4) when
\* that is not negative and 0 otherwise; no dot is at or beyond the start
\* of the column and one more dot would be; a first line that fits
\* max_text_width has at least 12 dots; a line that reaches the column has
\* none.
C24_DotLeader ==
    (lib.called /\ lib.fn = "create_toc_page") =>
        LET draws == lib.layout.draws
        IN  \A f \in 1..Len(draws) :
                draws[f].kind = "first" =>
                    LET text_width == Measured(draws[f].text)
                        start == margin_left * 1000 + text_width
                        free == NumberColumn - start
                        count == draws[f + 1].n
                    IN  /\ draws[f + 1].kind = "dots"
                        /\ draws[f + 1].entry = draws[f].entry
                        /\ count >= 0
                        /\ free >= 0 => count = free \div (dot_spacing * 1000)
                        /\ count > 0 =>
                               start + (count - 1) * dot_spacing * 1000 < NumberColumn
                        /\ free >= 0 =>
                               start + count * dot_spacing * 1000
                                   > NumberColumn - dot_spacing * 1000
                        /\ text_width <= max_text_width * 1000 => count >= 12
                        /\ start >= NumberColumn => count = 0

C24_Witness ==
    /\ lib.called /\ lib.fn = "create_toc_page" /\ ~lib.layout.error
    /\ \E f \in 1..Len(lib.layout.draws) :
           /\ lib.layout.draws[f].kind = "first"
           /\ margin_left * 1000 + Measured(lib.layout.draws[f].text) > NumberColumn
           /\ lib.layout.draws[f + 1].n = 0
    /\ \E f \in 1..Len(lib.layout.draws) :
           /\ lib.layout.draws[f].kind = "first"
           /\ Measured(lib.layout.draws[f].text) > max_text_width * 1000
           /\ lib.layout.draws[f + 1].n \in 1..11

\* C25: a merge does not change, overwrite or delete a file that was in the
\* directory when it began, a file named <resolved output name>.temp
\* included: when it has returned, every such file is there as it was.
C25_ExistingFilesUntouched ==
    \A p \in Procs :
        m[p].pc = "done" =>
            \A f \in DOMAIN m[p].pre :
                f \in DOMAIN dir /\ dir[f] = m[p].pre[f]

\* Files other than the one named <resolved output name>.temp are left as
\* they were.
OtherFilesUntouched ==
    \A p \in Procs :
        m[p].pc = "done" =>
            \A f \in DOMAIN m[p].pre \ {m[p].temp_output} :
                f \in DOMAIN dir /\ dir[f] = m[p].pre[f]

\* The invocation has resolved its output path and not failed since.
Resolved(p) ==
    m[p].pc \in {"writetemp", "writing", "readtotal", "number", "opening",
                 "numbering", "cleanup_toc", "cleanup_temp"}
    \/ (m[p].pc = "done" /\ m[p].result # None)

\* C26: two invocations running at once on the same directory with the same
\* requested output name resolve two distinct final output paths.
C26_DistinctOutputPaths ==
    \A p \in Procs, q \in Procs :
        (p # q /\ Resolved(p) /\ Resolved(q)) =>
            m[p].output_path # m[q].output_path

\* C26, as the code has it: an invocation that resolves its output path
\* when the other's final document is already in the directory resolves a
\* different path; the check is made once, at that step, against the
\* directory as it is then.
C26_DistinctWhenWrittenBefore ==
    [][\A p \in Procs, q \in Procs :
          (/\ p # q
           /\ m[q].pc = "resolve" /\ m'[q].pc = "writetemp"
           /\ Resolved(p)
           /\ exists(dir, m[p].output_path))
              => /\ m'[q].output_path # m[p].output_path
                 /\ ~exists(dir, m'[q].output_path)]_vars

\* Both invocations ran at once and the second resolved after the first had
\* written out.pdf: it goes to out_1.pdf.
C26_Witness ==
    /\ m[1].pc = "done" /\ m[1].result = out_pdf
    /\ Resolved(2) /\ m[2].output_path = out_1_pdf
    /\ out_pdf \notin DOMAIN m[2].pre
    /\ m[2].pretmp # << >>

\* C27: the page counts of all sources are read before anything is written:
\* while they are read the directory and the temp area are as they were when
\* merge was called, and when reading one fails the error leaves merge with
\* both still so: no temp file and no output file has been created.
C27_CountFailureWritesNothing ==
    [][\A p \in Procs :
          m[p].pc = "count" =>
              /\ dir = m[p].pre /\ tmp = m[p].pretmp
              /\ m'[p].pc \in {"count", "offsets", "failed"}
              /\ dir' = m[p].pre /\ tmp' = m[p].pretmp
              /\ m'[p].pc = "offsets" =>
                     Len(m'[p].page_counts) = Len(m[p].pdf_files)]_vars

\* A merge has failed while reading the page count of its second source.
C27_Witness ==
    \E p \in Procs :
        /\ m[p].pc = "failed"
        /\ m[p].output_path = << >>
        /\ dir = m[p].pre /\ tmp = m[p].pretmp
        /\ \E f \in Eligible(m[p].pre, m[p].requested) : ~m[p].pre[f].valid
        /\ Cardinality(Eligible(m[p].pre, m[p].requested)) >= 2

\* C28: every text line create_toc_page draws, the first or a further line
\* of any entry, is drawn at a y with
\* bottom_margin <= y <= height - top_margin: none below the bottom margin.
C28_LinesWithinMargins ==
    (lib.called /\ lib.fn = "create_toc_page") =>
        \A k \in TextLines(lib.layout.draws) :
            /\ lib.layout.draws[k].y >= bottom_margin
            /\ lib.layout.draws[k].y <= height - top_margin

\* The last line that fits on a page has been drawn, and the entry goes on
\* on the next page.
C28_Witness ==
    /\ lib.called /\ lib.fn = "create_toc_page"
    /\ \E k \in TextLines(lib.layout.draws) :
           /\ lib.layout.draws[k].kind = "cont"
           /\ lib.layout.draws[k].y - line_height < bottom_margin
           /\ k + 1 \in TextLines(lib.layout.draws)
           /\ lib.layout.draws[k + 1].y = height - top_margin
           /\ lib.layout.draws[k + 1].entry = lib.layout.draws[k].entry

\* C29: for every file name that reaches create_toc_page, a name whose
\* display name is empty or only whitespace included, wrap_text returns at
\* least one line, so that lines[0] is there and the entry is rendered.
C29_EveryEntryHasALine ==
    (lib.called /\ lib.fn = "create_toc_page") =>
        /\ \A i \in 1..Len(lib.filenames) :
               wrap_text(format_display_name(lib.filenames[i]),
                         max_text_width) # << >>
        /\ ~lib.layout.error
        /\ LibDoc.valid

\* The steps that may follow a step of merge_pdfs when no error is raised.
StepsAfter(pc) ==
    CASE pc \in {"idle", "done", "failed"} -> {"count", "done"}
      [] pc = "count" -> {"count", "offsets"}
      [] pc = "offsets" -> {"toc"}
      [] pc = "toc" -> {"addtoc"}
      [] pc = "addtoc" -> {"title"}
      [] pc = "title" -> {"addtitle"}
      [] pc = "addtitle" -> {"content"}
      [] pc = "content" -> {"unlink"}
      [] pc = "unlink" -> {"title", "resolve"}
      [] pc = "resolve" -> {"writetemp"}
      [] pc = "writetemp" -> {"writing"}
      [] pc = "writing" -> {"readtotal"}
      [] pc = "readtotal" -> {"number"}
      [] pc = "number" -> {"opening"}
      [] pc = "opening" -> {"numbering"}
      [] pc = "numbering" -> {"cleanup_toc"}
      [] pc = "cleanup_toc" -> {"cleanup_temp"}
      [] pc = "cleanup_temp" -> {"done"}

\* The temp files invocation p has made and not deleted.
OwnTemps(p) == DOMAIN tmp \ DOMAIN m[p].pretmp

====
